---- MODULE Spec2Model ----
(***************************************************************************)
(* Model of the e-mail extraction / cleaning / CSV export pipeline of      *)
(* src/email-processor.js and src/gmail-auth.js.                            *)
(*                                                                         *)
(* JavaScript strings are sequences of one-character strings, so that      *)
(* split, trim, replace and the CSV quoting act on characters as the code  *)
(* does.  Chars("ab") = <<"a", "b">>.                                       *)
(*                                                                         *)
(* The pure functions are checked under specifications that draw the       *)
(* argument of one call in Init and apply the function in one action       *)
(* (variables fn, arg, ret).                                               *)
(***************************************************************************)
EXTENDS Integers, Sequences, FiniteSets, TLC

VARIABLES fn, arg, ret, pc, listResponse, listData, replies, processedEmails, writes,
          exports, running, fsLog, batch, session

vars ==
  <<fn, arg, ret, pc, listResponse, listData, replies, processedEmails, writes,
    exports, running, fsLog, batch, session>>

\* The state of one export call: the await it stands at, the response to its
\* list request and the list that response carried, the replies to its detail
\* requests, the records it decoded and the data it handed to fs.writeFileSync
\* and fs.appendFileSync, in call order.
callVars == <<pc, listResponse, listData, replies, processedEmails, writes>>

\* The state of two export calls in one process: what each call stands at,
\* the call that holds the thread (0: the event loop is idle) and the fs calls
\* made on the file, in the order they were made.
concurrentVars == <<exports, running, fsLog>>

\* The state of the HTTP handlers: the runs of the batch extraction started by
\* /api/extract-emails, and the session of a browser with the callbacks it
\* sent.
serverVars == <<batch, session>>

exportVars == <<callVars, concurrentVars, serverVars>>

\* No export call is followed alone.
NoSingleCall ==
  /\ pc = "none"
  /\ listResponse = "none"
  /\ listData = [kind |-> "pending", val |-> <<>>]
  /\ replies = [kind |-> "pending", val |-> <<>>]
  /\ processedEmails = <<>>
  /\ writes = <<>>

\* No two calls are followed together.
NoConcurrentCalls ==
  /\ exports = <<>>
  /\ running = 0
  /\ fsLog = <<>>

\* No request is being handled.
NoRequests ==
  /\ batch = <<>>
  /\ session = <<>>

\* No export is running.
NoExport == NoSingleCall /\ NoConcurrentCalls /\ NoRequests

(***************************************************************************)
(* Bounds of the model.                                                    *)
(***************************************************************************)
MaxNormLen == 4
MaxFieldLen == 4
MaxLines == 3
MaxEmails == 3
MaxBlocks == 2
MaxParts == 2
MaxMessages == 3
MaxChunkScale == 2
MaxParallelMessages == 2
MaxThreadLen == 7
MaxDepth == 4
MaxUsers == 2
MaxLogins == 2

(***************************************************************************)
(* JavaScript values and strings.                                          *)
(***************************************************************************)
Chars(s) == [i \in 1..Len(s) |-> SubSeq(s, i, i)]

StringsUpTo(alphabet, n) == UNION {[1..k -> alphabet] : k \in 0..n}

\* What a call returned (a string, null/undefined) or that it threw.
Pending == [kind |-> "pending", val |-> <<>>]
Str(v) == [kind |-> "string", val |-> v]
Undefined == [kind |-> "undefined", val |-> <<>>]
Throw(e) == [kind |-> "throw", val |-> e]

\* The characters String.prototype.trim and the regex class \s remove, among
\* the characters the model draws.
WhiteSpace == {" ", "\t", "\n", "\r"}

RECURSIVE DropWhile(_, _)
DropWhile(s, cls) ==
  IF s # <<>> /\ Head(s) \in cls THEN DropWhile(Tail(s), cls) ELSE s

RECURSIVE DropLastWhile(_, _)
DropLastWhile(s, cls) ==
  IF s # <<>> /\ s[Len(s)] \in cls
    THEN DropLastWhile(SubSeq(s, 1, Len(s) - 1), cls)
    ELSE s

\* String.prototype.trim
trim(s) == DropLastWhile(DropWhile(s, WhiteSpace), WhiteSpace)

\* s.replace(/[cls]+/g, rep): every maximal run of characters of cls becomes rep.
RECURSIVE ReplaceRuns(_, _, _)
ReplaceRuns(s, cls, rep) ==
  IF s = <<>> THEN <<>>
  ELSE IF Head(s) \in cls
    THEN rep \o ReplaceRuns(DropWhile(s, cls), cls, rep)
    ELSE <<Head(s)>> \o ReplaceRuns(Tail(s), cls, rep)

\* text.split('\n')
RECURSIVE split(_, _)
split(s, sep) ==
  IF \E i \in 1..Len(s) : s[i] = sep
    THEN LET i == CHOOSE k \in 1..Len(s) :
                    s[k] = sep /\ \A j \in 1..(k - 1) : s[j] # sep
         IN <<SubSeq(s, 1, i - 1)>> \o split(SubSeq(s, i + 1, Len(s)), sep)
    ELSE <<s>>

\* lines.join(sep)
RECURSIVE join(_, _)
join(lines, sep) ==
  IF lines = <<>> THEN <<>>
  ELSE IF Len(lines) = 1 THEN lines[1]
  ELSE lines[1] \o sep \o join(Tail(lines), sep)

UpperLetters == Chars("ABCDEFGHIJKLMNOPQRSTUVWXYZ")
LowerLetters == Chars("abcdefghijklmnopqrstuvwxyz")
DigitChars == {"0", "1", "2", "3", "4", "5", "6", "7", "8", "9"}
Letters == {UpperLetters[i] : i \in 1..26} \cup {LowerLetters[i] : i \in 1..26}
\* the regex class \w
WordChars == Letters \cup DigitChars \cup {"_"}

\* String.prototype.toLowerCase
toLowerCase(s) ==
  [i \in 1..Len(s) |->
     IF \E k \in 1..26 : UpperLetters[k] = s[i]
       THEN LowerLetters[CHOOSE k \in 1..26 : UpperLetters[k] = s[i]]
       ELSE s[i]]

\* s.startsWith(prefix)
startsWith(s, prefix) ==
  Len(s) >= Len(prefix) /\ SubSeq(s, 1, Len(prefix)) = prefix

\* s.includes(sub)
includes(s, sub) ==
  \E i \in 1..(Len(s) - Len(sub) + 1) : SubSeq(s, i, i + Len(sub) - 1) = sub

\* The regex assertion \b between positions i - 1 and i of s.
WordBoundary(s, i) ==
  (i > 1 /\ s[i - 1] \in WordChars) # (i <= Len(s) /\ s[i] \in WordChars)

AllIn(s, from, to, cls) == \A k \in from..to : s[k] \in cls

\* Mutant of normalizeWhitespace: the final trim() is forgotten.
normalizeWhitespace_noTrim(text) ==
  ReplaceRuns(ReplaceRuns(text, {" ", "\t"}, <<" ">>), {"\n"}, <<"\n">>)

\* text.replace(/[ \t]+/g, ' ').replace(/\n+/g, '\n').trim()
normalizeWhitespace(text) ==
  trim(ReplaceRuns(ReplaceRuns(text, {" ", "\t"}, <<" ">>), {"\n"}, <<"\n">>))

(***************************************************************************)
(* Specification of one normalizeWhitespace call.                          *)
(***************************************************************************)
NormAlphabet == {"a", " ", "\t", "\n", "\r"}

InitNormalize ==
  /\ NoExport
  /\ fn = "normalizeWhitespace"
  /\ arg \in StringsUpTo(NormAlphabet, MaxNormLen)
  /\ ret = Pending

CallNormalizeWhitespace ==
  /\ fn = "normalizeWhitespace"
  /\ ret = Pending
  /\ ret' = Str(normalizeWhitespace(arg))
  /\ UNCHANGED <<fn, arg, exportVars>>

NextNormalize == CallNormalizeWhitespace

SpecNormalize == InitNormalize /\ [][NextNormalize]_vars

HasRun(s, cls) == \E i \in 1..(Len(s) - 1) : s[i] \in cls /\ s[i + 1] \in cls

\* C9: normalizeWhitespace is idempotent, and its result has no run of two or
\* more spaces/tabs, no run of two or more newlines and no leading or trailing
\* whitespace.
C9_NormalizeIdempotent ==
  (fn = "normalizeWhitespace" /\ ret.kind = "string") =>
    /\ normalizeWhitespace(ret.val) = ret.val
    /\ ~HasRun(ret.val, {" ", "\t"})
    /\ ~HasRun(ret.val, {"\n"})
    /\ (ret.val # <<>> =>
          /\ ret.val[1] \notin WhiteSpace
          /\ ret.val[Len(ret.val)] \notin WhiteSpace)

\* A call whose argument had leading whitespace, a run of blanks and a trailing
\* newline, and that returned a non-empty string.
C9_Witness ==
  /\ fn = "normalizeWhitespace"
  /\ ret.kind = "string"
  /\ arg = <<" ", "\t", "a", "\n">>
  /\ ret.val = <<"a">>

(***************************************************************************)
(* escapeCSVField (both files hold the same function; gmail-auth.js:608    *)
(* tests the three characters with includes() instead of one regex).       *)
(***************************************************************************)
Null == [kind |-> "null", val |-> <<>>]
Num(n) == [kind |-> "number", val |-> n]

\* String(n) for the small non-negative integers the thread export passes
\* (the 1-based thread position).
Digits == <<"0", "1", "2", "3", "4", "5", "6", "7", "8", "9">>

RECURSIVE NumberToString(_)
NumberToString(n) ==
  IF n < 10 THEN <<Digits[n + 1]>>
  ELSE NumberToString(n \div 10) \o <<Digits[(n % 10) + 1]>>

\* String(field), for a field that is neither null nor undefined
JsString(field) ==
  IF field.kind = "number" THEN NumberToString(field.val) ELSE field.val

\* /[",\n]/.test(str)
NeedsQuoting(str) == \E i \in 1..Len(str) : str[i] \in {"\"", ",", "\n"}

\* str.replace(/"/g, '""')
RECURSIVE DoubleQuotes(_)
DoubleQuotes(str) ==
  IF str = <<>> THEN <<>>
  ELSE IF Head(str) = "\""
    THEN <<"\"", "\"">> \o DoubleQuotes(Tail(str))
    ELSE <<Head(str)>> \o DoubleQuotes(Tail(str))

\* Mutant of escapeCSVField: the inner quotes are not doubled.
escapeCSVField_noDoubling(field) ==
  IF field.kind \in {"null", "undefined"} THEN <<>>
  ELSE LET str == JsString(field) IN
    IF NeedsQuoting(str) THEN <<"\"">> \o str \o <<"\"">> ELSE str

escapeCSVField(field) ==
  IF field.kind \in {"null", "undefined"} THEN <<>>
  ELSE LET str == JsString(field) IN
    IF NeedsQuoting(str)
      THEN <<"\"">> \o DoubleQuotes(str) \o <<"\"">>
      ELSE str

(***************************************************************************)
(* Specification of one escapeCSVField call.                               *)
(***************************************************************************)
CsvAlphabet == {"a", " ", "\"", ",", "\n"}

\* The field of the round-trip example of the specification: a,"b"<newline>c
CsvExample == Chars("a,\"b\"\nc")

InitEscape ==
  /\ NoExport
  /\ fn = "escapeCSVField"
  /\ arg \in {Str(s) : s \in StringsUpTo(CsvAlphabet, MaxFieldLen) \cup {CsvExample}}
             \cup {Null, Undefined} \cup {Num(n) : n \in {1, 12}}
  /\ ret = Pending

CallEscapeCSVField ==
  /\ fn = "escapeCSVField"
  /\ ret = Pending
  /\ ret' = Str(escapeCSVField(arg))
  /\ UNCHANGED <<fn, arg, exportVars>>

NextEscape == CallEscapeCSVField

SpecEscape == InitEscape /\ [][NextEscape]_vars

(***************************************************************************)
(* A standard CSV reader (RFC 4180 quoting, as Python's csv.reader reads   *)
(* it): the reference the round trip is stated against.  It returns the    *)
(* records read so far, the last one being the record under construction.  *)
(***************************************************************************)
RECURSIVE CsvRead(_, _, _, _, _)
CsvRead(s, mode, cur, rec, recs) ==
  IF s = <<>> THEN
    IF mode = "start" /\ rec = <<>> THEN recs ELSE Append(recs, Append(rec, cur))
  ELSE LET c == Head(s) r == Tail(s) IN
    CASE mode = "quoted" ->
           IF c = "\"" THEN CsvRead(r, "quote", cur, rec, recs)
           ELSE CsvRead(r, "quoted", Append(cur, c), rec, recs)
      [] mode = "quote" /\ c = "\"" ->
           CsvRead(r, "quoted", Append(cur, c), rec, recs)
      [] mode = "start" /\ c = "\"" ->
           CsvRead(r, "quoted", cur, rec, recs)
      [] mode # "quoted" /\ ~(c = "\"" /\ mode \in {"quote", "start"}) /\ c = "," ->
           CsvRead(r, "start", <<>>, Append(rec, cur), recs)
      [] mode # "quoted" /\ ~(c = "\"" /\ mode \in {"quote", "start"}) /\ c = "\n" ->
           CsvRead(r, "start", <<>>, <<>>, Append(recs, Append(rec, cur)))
      [] OTHER ->
           CsvRead(r, "field", Append(cur, c), rec, recs)

CsvReader(s) == CsvRead(s, "start", <<>>, <<>>, <<>>)

CountOf(s, c) == Cardinality({i \in 1..Len(s) : s[i] = c})

\* C3: the text escapeCSVField produces for a string is read back by a standard
\* CSV reader as one single field equal to the original string (here between
\* two neighbour fields of a row); the field is wrapped in double quotes with
\* the inner quotes doubled exactly when it holds a quote, comma or newline,
\* and is emitted unchanged otherwise.
C3_CsvRoundTrip ==
  (fn = "escapeCSVField" /\ ret.kind = "string" /\ arg.kind = "string") =>
    LET special == \E i \in 1..Len(arg.val) : arg.val[i] \in {"\"", ",", "\n"}
        out == ret.val
    IN /\ CsvReader(Chars("x,") \o out \o Chars(",y\n"))
            = << <<Chars("x"), arg.val, Chars("y")>> >>
       /\ special =>
            /\ Len(out) = Len(arg.val) + CountOf(arg.val, "\"") + 2
            /\ out[1] = "\"" /\ out[Len(out)] = "\""
            /\ CountOf(out, "\"") = 2 * CountOf(arg.val, "\"") + 2
       /\ ~special => out = arg.val

\* The round-trip example of the specification has been escaped.
C3_Witness ==
  /\ fn = "escapeCSVField"
  /\ arg = Str(CsvExample)
  /\ ret = Str(Chars("\"a,\"\"b\"\"\nc\""))
(***************************************************************************)
(* cleanPlainText.  email-processor.js:200 drops the lines that hold an    *)
(* e-mail address, a phone number or a URL; the copy at gmail-auth.js:1082 *)
(* keeps them and drops the blank lines (cleanPlainText_ga).               *)
(***************************************************************************)
Salutations ==
  {Chars("best regards"), Chars("sincerely"), Chars("cheers"), Chars("thanks")}

\* /^[\s]*(Best regards|Sincerely|Cheers|Thanks),?[\s]*$/i.test(s)
IsSalutation(s) ==
  LET t == toLowerCase(trim(s)) IN
    \/ t \in Salutations
    \/ /\ t # <<>>
       /\ t[Len(t)] = ","
       /\ SubSeq(t, 1, Len(t) - 1) \in Salutations

\* /\b[A-Za-z0-9._%+-]+@[A-Za-z0-9.-]+\.[A-Z]{2,}\b/i.test(s)
HasEmailAddress(s) ==
  \E at \in 2..Len(s) :
    /\ s[at] = "@"
    /\ \E b \in 1..(at - 1) :
         /\ WordBoundary(s, b)
         /\ AllIn(s, b, at - 1, Letters \cup DigitChars \cup {".", "_", "%", "+", "-"})
    /\ \E dot \in (at + 2)..Len(s) : \E e \in (dot + 2)..Len(s) :
         /\ s[dot] = "."
         /\ AllIn(s, at + 1, dot - 1, Letters \cup DigitChars \cup {".", "-"})
         /\ AllIn(s, dot + 1, e, Letters)
         /\ WordBoundary(s, e + 1)

\* /\b\d{3}-\d{3}-\d{4}\b/.test(s)
HasPhoneNumber(s) ==
  \E b \in 1..(Len(s) - 11) :
    /\ WordBoundary(s, b)
    /\ AllIn(s, b, b + 2, DigitChars) /\ s[b + 3] = "-"
    /\ AllIn(s, b + 4, b + 6, DigitChars) /\ s[b + 7] = "-"
    /\ AllIn(s, b + 8, b + 11, DigitChars)
    /\ WordBoundary(s, b + 12)

\* /https?:\/\/[^\s]+/.test(s)
HasUrl(s) ==
  \E i \in 1..Len(s) : \E scheme \in {Chars("http://"), Chars("https://")} :
    /\ startsWith(SubSeq(s, i, Len(s)), scheme)
    /\ i + Len(scheme) <= Len(s)
    /\ s[i + Len(scheme)] \notin WhiteSpace

\* The condition of the backward loop on one line.
IsSignatureLine(line) ==
  LET trimmed == trim(line) IN
    startsWith(trimmed, <<"-", "-">>) \/ IsSalutation(trimmed)

\* for (i = lines.length - 1; i >= 0; i--) ... break: the index (from 1) of the
\* first line found scanning backward, 0 for the code's -1.
RECURSIVE ScanBackward(_, _)
ScanBackward(lines, i) ==
  IF i = 0 THEN 0
  ELSE IF IsSignatureLine(lines[i]) THEN i
  ELSE ScanBackward(lines, i - 1)

\* Mutant: the loop runs forward and stops at the first signature line.
signatureStart_forward(lines) ==
  IF \E i \in 1..Len(lines) : IsSignatureLine(lines[i])
    THEN CHOOSE i \in 1..Len(lines) :
           IsSignatureLine(lines[i]) /\ \A j \in 1..(i - 1) : ~IsSignatureLine(lines[j])
    ELSE 0

signatureStart(lines) == ScanBackward(lines, Len(lines))

\* lines.splice(signatureStart) when a signature line was found
SpliceSignature(lines) ==
  LET start == signatureStart(lines) IN
    IF start # 0 THEN SubSeq(lines, 1, start - 1) ELSE lines

\* The filter callback of email-processor.js:221
KeepsLine(line) ==
  LET trimmed == trim(line) IN
    ~HasEmailAddress(trimmed) /\ ~HasPhoneNumber(trimmed) /\ ~HasUrl(trimmed)

\* The filter callback of gmail-auth.js:1104
KeepsLine_ga(line) == Len(trim(line)) > 0

cleanPlainText(text) ==
  IF text = <<>> THEN <<>>
  ELSE normalizeWhitespace(
         join(SelectSeq(SpliceSignature(split(text, "\n")), KeepsLine), <<"\n">>))

cleanPlainText_ga(text) ==
  IF text = <<>> THEN <<>>
  ELSE normalizeWhitespace(
         join(SelectSeq(SpliceSignature(split(text, "\n")), KeepsLine_ga), <<"\n">>))

(***************************************************************************)
(* Specification of one cleanPlainText call, of either copy.               *)
(***************************************************************************)
SampleLines ==
  { Chars("Hi team"), <<>>, <<" ">>, Chars("Best regards,"), Chars("CHEERS"),
    Chars("--"), Chars("--x"), Chars("Thanks a"), Chars(" John "),
    Chars("a@b.io"), Chars("555-123-4567"), Chars("http://x") }

\* The signature example of the specification.
PlainExample == Chars("Hi team\n\nBest regards,\nJohn\n555-123-4567")

PlainTexts ==
  {join(ls, <<"\n">>) : ls \in UNION {[1..k -> SampleLines] : k \in 1..MaxLines}}
    \cup {PlainExample}

InitPlain ==
  /\ NoExport
  /\ fn \in {"cleanPlainText", "cleanPlainText_ga"}
  /\ arg \in PlainTexts
  /\ ret = Pending

CallCleanPlainText ==
  /\ fn = "cleanPlainText"
  /\ ret = Pending
  /\ ret' = Str(cleanPlainText(arg))
  /\ UNCHANGED <<fn, arg, exportVars>>

CallCleanPlainText_ga ==
  /\ fn = "cleanPlainText_ga"
  /\ ret = Pending
  /\ ret' = Str(cleanPlainText_ga(arg))
  /\ UNCHANGED <<fn, arg, exportVars>>

NextPlain == CallCleanPlainText \/ CallCleanPlainText_ga

SpecPlain == InitPlain /\ [][NextPlain]_vars
\* One line as it shows in the output: inner blanks collapsed, ends trimmed.
NormLine(line) == trim(ReplaceRuns(line, {" ", "\t"}, <<" ">>))

NonBlank(line) == trim(line) # <<>>

TrimEach(lines) == [i \in 1..Len(lines) |-> trim(lines[i])]

NormEach(lines) == [i \in 1..Len(lines) |-> NormLine(lines[i])]

\* The non-blank lines of a returned text.
OutLines(out) == SelectSeq(TrimEach(split(out, "\n")), NonBlank)

\* The last index of lines that satisfies Test, 0 when none does.
LastIndexOf(lines, Test(_)) ==
  IF \E i \in 1..Len(lines) : Test(lines[i])
    THEN CHOOSE i \in 1..Len(lines) :
           Test(lines[i]) /\ \A j \in (i + 1)..Len(lines) : ~Test(lines[j])
    ELSE 0

\* A line that is the `--` delimiter or a closing salutation, nothing else.
IsExactSignatureLine(line) == trim(line) = <<"-", "-">> \/ IsSalutation(line)

\* A line whose trimmed text begins with `--`, or a closing salutation.
IsPrefixSignatureLine(line) ==
  \/ (Len(trim(line)) >= 2 /\ trim(line)[1] = "-" /\ trim(line)[2] = "-")
  \/ IsSalutation(line)

HoldsContact(line) == HasEmailAddress(line) \/ HasPhoneNumber(line) \/ HasUrl(line)

NonBlankNoContact(line) == NonBlank(line) /\ ~HoldsContact(line)

\* C8 as stated: the text is cut at the last line that is exactly `--` or a
\* closing salutation; that line and the lines after it are absent from the
\* output and the non-blank lines before it are all retained in their order.
C8_CutAtExactDelimiter ==
  (fn \in {"cleanPlainText", "cleanPlainText_ga"} /\ ret.kind = "string") =>
    LET lines == split(arg, "\n")
        k == LastIndexOf(lines, IsExactSignatureLine)
    IN k # 0 =>
         OutLines(ret.val) = NormEach(SelectSeq(SubSeq(lines, 1, k - 1), NonBlank))

\* What the code does: the text is cut at the last line whose trimmed text
\* begins with `--` or is a closing salutation; that line and the lines after
\* it are absent, and the non-blank lines before it are retained in their
\* order, except that email-processor.js also drops the lines that hold an
\* e-mail address, a phone number or a URL.
C8_CutAtSignatureStart ==
  (fn \in {"cleanPlainText", "cleanPlainText_ga"} /\ ret.kind = "string") =>
    LET lines == split(arg, "\n")
        k == LastIndexOf(lines, IsPrefixSignatureLine)
        before == SubSeq(lines, 1, k - 1)
    IN k # 0 =>
         OutLines(ret.val) =
           IF fn = "cleanPlainText"
             THEN NormEach(SelectSeq(before, NonBlankNoContact))
             ELSE NormEach(SelectSeq(before, NonBlank))

\* The signature example of the specification was cleaned to `Hi team` by the
\* copy of email-processor.js.
C8_Witness ==
  /\ fn = "cleanPlainText"
  /\ arg = PlainExample
  /\ ret = Str(Chars("Hi team"))

\* The same, by the copy of gmail-auth.js.
C8_Witness_ga ==
  /\ fn = "cleanPlainText_ga"
  /\ arg = PlainExample
  /\ ret = Str(Chars("Hi team"))
(***************************************************************************)
(* JavaScript objects used as maps: the own keys in the order Object.keys, *)
(* Object.values and Object.entries enumerate them (array-index keys in    *)
(* ascending numeric order first, then the other string keys in creation   *)
(* order), with the value of each.                                         *)
(***************************************************************************)
EmptyObject == [keys |-> <<>>, vals |-> <<>>]

ObjectHas(o, k) == \E i \in 1..Len(o.keys) : o.keys[i] = k

ObjectIndex(o, k) == CHOOSE i \in 1..Len(o.keys) : o.keys[i] = k

ObjectGet(o, k) == o.vals[ObjectIndex(o, k)]

DigitValue(d) == CHOOSE n \in 0..9 : Digits[n + 1] = d

RECURSIVE DecimalValue(_)
DecimalValue(c) ==
  IF c = <<>> THEN 0
  ELSE 10 * DecimalValue(SubSeq(c, 1, Len(c) - 1)) + DigitValue(c[Len(c)])

\* The largest array index, 2^32 - 2, in decimal digits
MaxArrayIndex == <<"4", "2", "9", "4", "9", "6", "7", "2", "9", "4">>

\* x < y for two runs of decimal digits without leading zeros
RECURSIVE DigitsLess(_, _)
DigitsLess(x, y) ==
  IF Len(x) # Len(y) THEN Len(x) < Len(y)
  ELSE IF x = <<>> THEN FALSE
  ELSE IF Head(x) # Head(y) THEN DigitValue(Head(x)) < DigitValue(Head(y))
  ELSE DigitsLess(Tail(x), Tail(y))

\* A canonical array index: decimal digits without a leading zero, of a
\* value up to 2^32 - 2.  A longer run of digits is an ordinary string key.
IsArrayIndex(k) ==
  LET c == Chars(k) IN
    /\ c # <<>>
    /\ \A i \in 1..Len(c) : c[i] \in DigitChars
    /\ (Len(c) > 1 => c[1] # "0")
    /\ ~DigitsLess(MaxArrayIndex, c)

\* Whether the new key k is enumerated before the existing key j.
KeyBefore(k, j) ==
  IsArrayIndex(k) /\ (~IsArrayIndex(j) \/ DigitsLess(Chars(k), Chars(j)))

InsertAt(s, i, x) == SubSeq(s, 1, i - 1) \o <<x>> \o SubSeq(s, i, Len(s))

\* o[k] = v
ObjectSet(o, k, v) ==
  IF ObjectHas(o, k)
    THEN [o EXCEPT !.vals[ObjectIndex(o, k)] = v]
    ELSE LET n == Len(o.keys)
             pos == IF \E i \in 1..n : KeyBefore(k, o.keys[i])
                      THEN CHOOSE i \in 1..n :
                             /\ KeyBefore(k, o.keys[i])
                             /\ \A j \in 1..(i - 1) : ~KeyBefore(k, o.keys[j])
                      ELSE n + 1
         IN [keys |-> InsertAt(o.keys, pos, k), vals |-> InsertAt(o.vals, pos, v)]

(***************************************************************************)
(* Date parsing and Array.prototype.sort.                                  *)
(***************************************************************************)
NaN == [nan |-> TRUE, num |-> 0]
Number(n) == [nan |-> FALSE, num |-> n]

\* new Date(s).getTime() for the Date header values the model draws, in seconds
\* (the code subtracts milliseconds; the sign of a difference is the same).
\* The empty string and free text give an Invalid Date.
DateStrings == {"", "2024-01-01", "2024-01-02", "2024-01-02T00:00:00Z", "2024-01-03"}

DateValue(s) ==
  CASE s = "2024-01-01" -> Number(1704067200)
    [] s = "2024-01-02" -> Number(1704153600)
    [] s = "2024-01-02T00:00:00Z" -> Number(1704153600)
    [] s = "2024-01-03" -> Number(1704240000)
    [] OTHER -> NaN

\* (a, b) => new Date(a.date) - new Date(b.date)
compareByDate(a, b) ==
  LET x == DateValue(a.date) y == DateValue(b.date) IN
    IF x.nan \/ y.nan THEN NaN ELSE Number(x.num - y.num)

\* Mutant: the comparator's operands are swapped (newest first).
CallCompare_swapped(a, b) ==
  LET v == compareByDate(b, a) IN IF v.nan THEN 0 ELSE v.num

\* How sort reads the comparator's result: NaN counts as +0.
CallCompare(a, b) ==
  LET v == compareByDate(a, b) IN IF v.nan THEN 0 ELSE v.num

Reverse(s) == [i \in 1..Len(s) |-> s[Len(s) + 1 - i]]

\* V8's sort (TimSort) on an array shorter than 64 elements: the leading run is
\* found and made ascending, and the rest is inserted by binary insertion.
\* CountRun: the length of the run that starts the array, idx being the next
\* element (from 1) to compare with its predecessor.
RECURSIVE CountRun(_, _, _)
CountRun(a, idx, isDescending) ==
  IF idx > Len(a) THEN Len(a)
  ELSE LET order == CallCompare(a[idx], a[idx - 1]) IN
    IF (isDescending /\ order >= 0) \/ (~isDescending /\ order < 0)
      THEN idx - 1
      ELSE CountRun(a, idx + 1, isDescending)

\* The binary search of the insertion point of pivot in a[left + 1 .. right].
RECURSIVE InsertionPoint(_, _, _, _)
InsertionPoint(a, pivot, left, right) ==
  IF left >= right THEN left
  ELSE LET mid == left + ((right - left) \div 2) IN
    IF CallCompare(pivot, a[mid + 1]) < 0
      THEN InsertionPoint(a, pivot, left, mid)
      ELSE InsertionPoint(a, pivot, mid + 1, right)

\* a[0 .. start - 1] is sorted; the elements from start (from 0) on are inserted.
RECURSIVE BinaryInsertionSort(_, _)
BinaryInsertionSort(a, start) ==
  IF start >= Len(a) THEN a
  ELSE LET pivot == a[start + 1]
           left == InsertionPoint(a, pivot, 0, start)
           moved == SubSeq(a, 1, left) \o <<pivot>> \o SubSeq(a, left + 1, start)
                      \o SubSeq(a, start + 2, Len(a))
       IN BinaryInsertionSort(moved, start + 1)

\* threadEmails.sort(compareByDate)
sortByDate(a) ==
  IF Len(a) < 2 THEN a
  ELSE LET isDescending == CallCompare(a[2], a[1]) < 0
           run == CountRun(a, 3, isDescending)
           made == IF isDescending
                     THEN Reverse(SubSeq(a, 1, run)) \o SubSeq(a, run + 1, Len(a))
                     ELSE a
       IN BinaryInsertionSort(made, run)

(***************************************************************************)
(* organizeEmailsByThread                                                  *)
(***************************************************************************)
\* Mutant: every record replaces the group of its thread instead of joining it.
pushEmail_overwrite(threads, email) ==
  ObjectSet(threads, email.threadId, <<email>>)

\* The forEach callback: if (!threads[id]) threads[id] = []; threads[id].push(email)
pushEmail(threads, email) ==
  LET created == IF ObjectHas(threads, email.threadId)
                   THEN threads
                   ELSE ObjectSet(threads, email.threadId, <<>>)
  IN ObjectSet(created, email.threadId,
               Append(ObjectGet(created, email.threadId), email))

RECURSIVE groupEmails(_, _)
groupEmails(emails, threads) ==
  IF emails = <<>> THEN threads
  ELSE groupEmails(Tail(emails), pushEmail(threads, Head(emails)))

organizeEmailsByThread(emails) ==
  LET threads == groupEmails(emails, EmptyObject) IN
    [keys |-> threads.keys,
     vals |-> [i \in 1..Len(threads.vals) |-> sortByDate(threads.vals[i])]]

(***************************************************************************)
(* Specification of one organizeEmailsByThread call.  A record carries its *)
(* position in the input as its id, so that every record is distinct.      *)
(***************************************************************************)
\* A Gmail-style identifier, a digit-only one that is an array index, and a
\* digit-only one of sixteen digits, which is not
ThreadIds == {"t1", "7", "1234567890123456"}

\* The records with the thread ids t and the dates d, in this order
EmailsOf(t, d) ==
  [i \in 1..Len(t) |-> [id |-> i, threadId |-> t[i], date |-> d[i]]]

InitOrganize ==
  /\ NoExport
  /\ fn = "organizeEmailsByThread"
  /\ \E n \in 0..MaxEmails :
     \E t \in [1..n -> ThreadIds], d \in [1..n -> DateStrings] : arg = EmailsOf(t, d)
  /\ ret = Pending

CallOrganizeEmailsByThread ==
  /\ fn = "organizeEmailsByThread"
  /\ ret = Pending
  /\ ret' = [kind |-> "object", val |-> organizeEmailsByThread(arg)]
  /\ UNCHANGED <<fn, arg, exportVars>>

NextOrganize == CallOrganizeEmailsByThread

SpecOrganize == InitOrganize /\ [][NextOrganize]_vars

Range(s) == {s[i] : i \in 1..Len(s)}

\* C5: organizeEmailsByThread returns exactly one group for each distinct
\* threadId of the input; the groups partition the input (every record is in
\* exactly one group, once, and in the group keyed by its own threadId), and
\* no group is empty.
C5_GroupsPartitionInput ==
  (fn = "organizeEmailsByThread" /\ ret.kind = "object") =>
    LET threads == ret.val
        n == Len(threads.keys)
    IN /\ Range(threads.keys) = {arg[i].threadId : i \in 1..Len(arg)}
       /\ n = Cardinality({arg[i].threadId : i \in 1..Len(arg)})
       /\ \A g \in 1..n :
            /\ threads.vals[g] # <<>>
            /\ \A j \in 1..Len(threads.vals[g]) :
                 threads.vals[g][j].threadId = threads.keys[g]
       /\ \A i \in 1..Len(arg) :
            Cardinality({<<g, j>> \in (1..n) \X (1..Len(arg)) :
                           j <= Len(threads.vals[g]) /\ threads.vals[g][j] = arg[i]}) = 1
       /\ \A g \in 1..n : Range(threads.vals[g]) \subseteq Range(arg)

\* Three records in two threads were organized.
C5_Witness ==
  /\ fn = "organizeEmailsByThread"
  /\ ret.kind = "object"
  /\ Len(arg) = 3
  /\ Len(ret.val.keys) = 2
  /\ \E g \in 1..2 : Len(ret.val.vals[g]) = 2

\* C6: within every group the parsed dates are non-decreasing in sequence
\* order: of two records of a group with parsable dates, the one with the
\* earlier date comes first, also when the group holds records with missing or
\* unparsable dates.
C6_GroupsSortedByDate ==
  (fn = "organizeEmailsByThread" /\ ret.kind = "object") =>
    \A g \in 1..Len(ret.val.vals) :
      LET group == ret.val.vals[g] IN
        \A i, j \in 1..Len(group) :
          (i < j /\ ~DateValue(group[i].date).nan /\ ~DateValue(group[j].date).nan)
            => DateValue(group[i].date).num <= DateValue(group[j].date).num
(***************************************************************************)
(* HTML cleaning.  An HTML source is modelled by the nodes its markup      *)
(* parses to: a text node carries its characters, an element its tag name, *)
(* its class names, its href and its child nodes.                          *)
(***************************************************************************)
TextNode(data) == [type |-> "text", data |-> data]

Element(name, class, href, children) ==
  [type |-> "tag", name |-> name, class |-> class, href |-> href, children |-> children]

Tag(name, children) == Element(name, {}, <<>>, children)

RECURSIVE ConcatAll(_)
ConcatAll(seqs) == IF seqs = <<>> THEN <<>> ELSE Head(seqs) \o ConcatAll(Tail(seqs))

\* removeScriptAndStyle: html.replace(/<(script|style|noscript)[^>]*>[\s\S]*?<\/\1>/gi, ' ')
\* on the parsed form: each such element becomes one blank of text.
RECURSIVE removeScriptAndStyle(_)
removeScriptAndStyle(nodes) ==
  [i \in 1..Len(nodes) |->
     IF nodes[i].type = "text" THEN nodes[i]
     ELSE IF nodes[i].name \in {"script", "style", "noscript"} THEN TextNode(<<" ">>)
     ELSE [nodes[i] EXCEPT !.children = removeScriptAndStyle(nodes[i].children)]]

\* cheerio.load(html): the fragment becomes the body of a full document.
load(nodes) == <<Tag("html", <<Tag("head", <<>>), Tag("body", nodes)>>)>>

\* $(el).text(): the text of all descendants, in document order.
RECURSIVE textOf(_)
textOf(node) ==
  IF node.type = "text" THEN node.data
  ELSE ConcatAll([i \in 1..Len(node.children) |-> textOf(node.children[i])])

BoilerplateClasses ==
  {"footer", "email-footer", "signature", "legal", "disclaimer", "footer-container",
   "email-bottom", "message-signature", "legal-notice"}

\* $('.footer, .email-footer, ...').remove()
RECURSIVE removeByClass(_)
removeByClass(nodes) ==
  LET Kept(n) == n.type = "text" \/ n.class \cap BoilerplateClasses = {}
      kept == SelectSeq(nodes, Kept)
  IN [i \in 1..Len(kept) |->
        IF kept[i].type = "text" THEN kept[i]
        ELSE [kept[i] EXCEPT !.children = removeByClass(kept[i].children)]]

ElementKeywords ==
  { Chars("unsubscribe"), Chars("privacy policy"), Chars("terms and conditions"),
    Chars("you received this email because"), Chars("view in browser"),
    Chars("sent from my"), Chars("this email was sent by"), Chars("copyright"),
    Chars("all rights reserved") }

\* The test of the each() callback on one element.
hasFooterKeyword(el) ==
  LET lower == toLowerCase(textOf(el)) IN \E k \in ElementKeywords : includes(lower, k)

\* Mutant: the keyword pass looks at the text an element holds directly, not at
\* the text of its descendants.
removesElement_ownText(el) ==
  LET IsText(n) == n.type = "text"
      own == SelectSeq(el.children, IsText)
      lower == toLowerCase(ConcatAll([i \in 1..Len(own) |-> own[i].data]))
  IN \E k \in ElementKeywords : includes(lower, k)

removesElement(el) == hasFooterKeyword(el)

\* $('*').each((i, el) => { if (<keyword in $(el).text()>) $(el).remove() }):
\* the elements are visited in document order, so an element is tested before
\* its descendants, and removing it detaches its whole subtree.
RECURSIVE removeByKeyword(_)
removeByKeyword(nodes) ==
  LET Kept(n) == n.type = "text" \/ ~removesElement(n)
      kept == SelectSeq(nodes, Kept)
  IN [i \in 1..Len(kept) |->
        IF kept[i].type = "text" THEN kept[i]
        ELSE [kept[i] EXCEPT !.children = removeByKeyword(kept[i].children)]]

\* a[href*="unsubscribe"], a[href*="privacy"], a[href*="terms"]
isFooterLink(n) ==
  /\ n.type = "tag"
  /\ n.name = "a"
  /\ \E w \in {Chars("unsubscribe"), Chars("privacy"), Chars("terms")} : includes(n.href, w)

\* $('a[href*=...]').parent().remove()
RECURSIVE removeFooterLinkParents(_)
removeFooterLinkParents(nodes) ==
  LET Kept(n) ==
        n.type = "text" \/ ~(\E i \in 1..Len(n.children) : isFooterLink(n.children[i]))
      kept == SelectSeq(nodes, Kept)
  IN [i \in 1..Len(kept) |->
        IF kept[i].type = "text" THEN kept[i]
        ELSE [kept[i] EXCEPT !.children = removeFooterLinkParents(kept[i].children)]]

isRule(n) == n.type = "tag" /\ n.name = "hr"

\* Mutant: only the rules are removed, their following siblings stay.
siblingsKept_all(nodes) ==
  LET NotRule(n) == ~isRule(n) IN SelectSeq(nodes, NotRule)

\* $('hr').nextAll().remove(); $('hr').remove() among the children of one
\* parent: the siblings after the first rule go, and the rule itself.
siblingsKept(nodes) ==
  IF \E i \in 1..Len(nodes) : isRule(nodes[i])
    THEN LET first == CHOOSE i \in 1..Len(nodes) :
                        isRule(nodes[i]) /\ \A j \in 1..(i - 1) : ~isRule(nodes[j])
         IN SubSeq(nodes, 1, first - 1)
    ELSE nodes

RECURSIVE removeAfterRules(_)
removeAfterRules(nodes) ==
  LET kept == siblingsKept(nodes) IN
    [i \in 1..Len(kept) |->
       IF kept[i].type = "text" THEN kept[i]
       ELSE [kept[i] EXCEPT !.children = removeAfterRules(kept[i].children)]]

\* removeBoilerplate($), on the nodes of the document
removeBoilerplate(document) ==
  removeAfterRules(removeFooterLinkParents(removeByKeyword(removeByClass(document))))

(***************************************************************************)
(* convert(html, {wordwrap: false, ...}) of html-to-text, on the nodes of  *)
(* the document $.html() serializes: the text of the body, a paragraph     *)
(* set off by a blank line, a div or a br by a line break, a link followed *)
(* by its address in brackets.  A piece is text or a request for a number  *)
(* of line breaks; adjacent requests merge into the largest.               *)
(***************************************************************************)
Piece(brk, chars) == [brk |-> brk, chars |-> chars]

RECURSIVE pieces(_)
pieces(node) ==
  IF node.type = "text"
    THEN <<Piece(0, ReplaceRuns(node.data, {" ", "\t", "\r"}, <<" ">>))>>
  ELSE LET inner == ConcatAll([i \in 1..Len(node.children) |-> pieces(node.children[i])])
       IN CASE node.name = "p" -> <<Piece(2, <<>>)>> \o inner \o <<Piece(2, <<>>)>>
            [] node.name = "div" -> <<Piece(1, <<>>)>> \o inner \o <<Piece(1, <<>>)>>
            [] node.name = "br" -> <<Piece(0, <<"\n">>)>>
            [] node.name = "a" ->
                 IF node.href = <<>> THEN inner
                 ELSE inner \o <<Piece(0, <<" ", "[">> \o node.href \o <<"]">>)>>
            [] node.name = "head" -> <<>>
            [] OTHER -> inner

Newlines(n) == [i \in 1..n |-> "\n"]

\* The pieces laid out: pending is the largest line-break request since the
\* last text, and nothing is laid out before the first text.
RECURSIVE layout(_, _, _)
layout(ps, pending, out) ==
  IF ps = <<>> THEN out
  ELSE LET p == Head(ps) IN
    IF p.chars = <<>>
      THEN layout(Tail(ps), IF p.brk > pending THEN p.brk ELSE pending, out)
      ELSE layout(Tail(ps), 0,
                  (IF out = <<>> THEN <<>> ELSE out \o Newlines(pending)) \o p.chars)

convertHTMLToText(document) ==
  layout(ConcatAll([i \in 1..Len(document) |-> pieces(document[i])]), 0, <<>>)
(***************************************************************************)
(* The text passes of enhancedCleanEmailContent.                           *)
(***************************************************************************)
\* s.replace(<regex>/g, '') for a regex whose matches are found by MatchLength:
\* MatchLength(s, i) is the length of the match that starts at position i of
\* s, 0 when none starts there.  Matches are taken left to right.
RemoveMatches(s, MatchLength(_, _)) ==
  LET RECURSIVE From(_, _)
      From(t, i) ==
        IF i > Len(t) THEN t
        ELSE LET n == MatchLength(t, i) IN
          IF n > 0
            THEN From(SubSeq(t, 1, i - 1) \o SubSeq(t, i + n, Len(t)), i)
            ELSE From(t, i + 1)
  IN From(s, 1)

\* The position after the longest run of characters of cls that starts at i.
RECURSIVE RunEnd(_, _, _)
RunEnd(s, i, cls) ==
  IF i <= Len(s) /\ s[i] \in cls THEN RunEnd(s, i + 1, cls) ELSE i

\* The position after the longest run of non-whitespace that starts at i.
RECURSIVE WordEnd(_, _)
WordEnd(s, i) ==
  IF i <= Len(s) /\ s[i] \notin WhiteSpace THEN WordEnd(s, i + 1) ELSE i

StartsAt(s, i, w) == i + Len(w) - 1 <= Len(s) /\ SubSeq(s, i, i + Len(w) - 1) = w

\* The length of https?:\/\/ at position i, 0 when the text has none there.
SchemeLength(s, i) ==
  IF StartsAt(s, i, Chars("https://")) THEN 8
  ELSE IF StartsAt(s, i, Chars("http://")) THEN 7
  ELSE 0

\* text.replace(/Â /gi, ' ') (the character is named by its code point); the
\* four replacements that follow it in the source replace &, ", < and > by
\* themselves.
decodeHTMLEntities(s) ==
  LET MatchLength(t, i) ==
        IF i < Len(t) /\ t[i] \in {"U+00C2", "U+00E2"} /\ t[i + 1] = " " THEN 1 ELSE 0
  IN RemoveMatches(s, MatchLength)

LineKeywords ==
  { Chars("unsubscribe"), Chars("privacy policy"), Chars("terms and conditions"),
    Chars("contact us"), Chars("view in browser"), Chars("sent from my"),
    Chars("this email was sent by"), Chars("copyright"), Chars("all rights reserved") }

LineKeywords_ga == LineKeywords \ {Chars("contact us")}

ShortLine == 5

\* Mutant: the very short lines are kept.
keepsTextLine_keepShort(line) ==
  /\ ~(\E k \in LineKeywords : includes(toLowerCase(line), k))
  /\ ~HasEmailAddress(line) /\ ~HasPhoneNumber(line) /\ ~HasUrl(line)

\* The filter callback of filterBoilerplateLines, email-processor.js:84
keepsTextLine(line) ==
  /\ Len(line) >= ShortLine
  /\ ~(\E k \in LineKeywords : includes(toLowerCase(line), k))
  /\ ~HasEmailAddress(line) /\ ~HasPhoneNumber(line) /\ ~HasUrl(line)

\* (\w+\s+){0,n}(unsubscribe|privacy|copyright) matched at position i
RECURSIVE FooterWords(_, _, _)
FooterWords(s, i, n) ==
  \/ \E w \in {Chars("unsubscribe"), Chars("privacy"), Chars("copyright")} : StartsAt(s, i, w)
  \/ /\ n > 0
     /\ \E e \in (i + 1)..Len(s) : \E f \in (e + 1)..(Len(s) + 1) :
          /\ AllIn(s, i, e - 1, WordChars)
          /\ AllIn(s, e, f - 1, WhiteSpace)
          /\ FooterWords(s, f, n - 1)

LongLine == 100

\* /^[^a-zA-Z]*(\w+\s+){0,4}(unsubscribe|privacy|copyright)/.test(lowerLine)
LooksLikeFooter(lowerLine) ==
  \E i \in 1..(Len(lowerLine) + 1) :
    /\ \A j \in 1..(i - 1) : lowerLine[j] \notin Letters
    /\ FooterWords(lowerLine, i, 4)

\* The filter callback of filterBoilerplateLines, gmail-auth.js:971
keepsTextLine_ga(line) ==
  /\ Len(line) >= ShortLine
  /\ (\E k \in LineKeywords_ga : includes(toLowerCase(line), k))
       => (Len(line) > LongLine \/ ~LooksLikeFooter(toLowerCase(line)))

filterBoilerplateLines(s) ==
  trim(join(SelectSeq(TrimEach(split(s, "\n")), keepsTextLine), <<"\n">>))

filterBoilerplateLines_ga(s) ==
  join(SelectSeq(TrimEach(split(s, "\n")), keepsTextLine_ga), <<"\n">>)

\* /https?:\/\/[^\s]+?(?:\?utm_[^\s]+|click[^\s]+|link\.[^\s]+)/g
TrackingParamUrl(s, i) ==
  LET n == SchemeLength(s, i) end == WordEnd(s, i) IN
    IF /\ n > 0
       /\ \E j \in (i + n + 1)..(end - 1) :
            \E w \in {Chars("?utm_"), Chars("click"), Chars("link.")} :
              StartsAt(s, j, w) /\ j + Len(w) < end
      THEN end - i ELSE 0

LongUrl == 50

\* /https?:\/\/[^\s]{50,}/g
VeryLongUrl(s, i) ==
  LET n == SchemeLength(s, i) end == WordEnd(s, i) IN
    IF n > 0 /\ end - (i + n) >= LongUrl THEN end - i ELSE 0

\* /https?:\/\/[^\/\s]+\/(track|click|open|view)[^\s]*/g
TrackingPathUrl(s, i) ==
  LET n == SchemeLength(s, i)
      end == WordEnd(s, i)
      slash == RunEnd(s, i + n, {s[k] : k \in (i + n)..(end - 1)} \ {"/"})
  IN IF /\ n > 0
        /\ slash > i + n
        /\ slash < end
        /\ \E w \in {Chars("track"), Chars("click"), Chars("open"), Chars("view")} :
             StartsAt(s, slash + 1, w) /\ slash + Len(w) < end
       THEN end - i ELSE 0

HashLength == 5

\* /https?:\/\/[^\s]+\/(e|t)\/[a-zA-Z0-9]{5,}[^\s]*/g
HashLinkUrl(s, i) ==
  LET n == SchemeLength(s, i) end == WordEnd(s, i) IN
    IF /\ n > 0
       /\ \E j \in (i + n + 1)..(end - 1) :
            /\ s[j] = "/"
            /\ j + 2 < end
            /\ s[j + 1] \in {"e", "t"}
            /\ s[j + 2] = "/"
            /\ j + 2 + HashLength < end
            /\ AllIn(s, j + 3, j + 2 + HashLength, Letters \cup DigitChars)
      THEN end - i ELSE 0

\* /\[\s*\[\s*\[/g, and the same with the closing bracket
BracketRun(s, i, bracket) ==
  LET second == RunEnd(s, i + 1, WhiteSpace)
      third == RunEnd(s, second + 1, WhiteSpace)
  IN IF /\ i <= Len(s) /\ s[i] = bracket
        /\ second <= Len(s) /\ s[second] = bracket
        /\ third <= Len(s) /\ s[third] = bracket
       THEN third + 1 - i ELSE 0

OpeningBrackets(s, i) == BracketRun(s, i, "[")
ClosingBrackets(s, i) == BracketRun(s, i, "]")

\* The characters of the first invisible-character pass, by code point, and
\* those of the second, of which the model draws the no-break space only.
ZeroWidthChars == {"U+200C", "U+200B", "U+200D", "U+200E", "U+200F", "U+2060", "U+FEFF"}
InvisibleChars == {"U+200B", "U+200C", "U+200D", "U+2060", "U+FEFF", "U+00A0"}

RemoveChars(s, cls) == LET Kept(c) == c \notin cls IN SelectSeq(s, Kept)

\* text.replace(/\n{3,}/g, '\n\n')
CollapseBlankLines(s) ==
  LET MatchLength(t, i) ==
        IF i + 2 <= Len(t) /\ t[i] = "\n" /\ t[i + 1] = "\n" /\ t[i + 2] = "\n"
          THEN 1 ELSE 0
  IN RemoveMatches(s, MatchLength)

ZipLength == 5
ZipExtension == 4

\* /\d+\s+[A-Za-z\s]+,\s+[A-Za-z\s]+,\s+[A-Z]{2}\s+\d{5}(-\d{4})?/g : a street
\* address (number, street, city, state, zip code)
StreetAddress(s, i) ==
  LET name == Letters \cup WhiteSpace
      upper == {UpperLetters[k] : k \in 1..26}
      street == RunEnd(s, i, DigitChars)
      comma1 == RunEnd(s, street, name)
      comma2 == RunEnd(s, comma1 + 1, name)
      state == RunEnd(s, comma2 + 1, WhiteSpace)
      zip == RunEnd(s, state + 2, WhiteSpace)
      end == zip + ZipLength
  IN IF /\ street > i
        /\ comma1 >= street + 2 /\ s[street] \in WhiteSpace
        /\ comma1 <= Len(s) /\ s[comma1] = ","
        /\ comma2 >= comma1 + 3 /\ s[comma1 + 1] \in WhiteSpace
        /\ comma2 <= Len(s) /\ s[comma2] = ","
        /\ state > comma2 + 1
        /\ state + 1 <= Len(s) /\ AllIn(s, state, state + 1, upper)
        /\ zip > state + 2
        /\ end - 1 <= Len(s) /\ AllIn(s, zip, end - 1, DigitChars)
       THEN IF /\ end + ZipExtension <= Len(s) /\ s[end] = "-"
               /\ AllIn(s, end + 1, end + ZipExtension, DigitChars)
              THEN end + ZipExtension + 1 - i
              ELSE end - i
       ELSE 0

\* text.substring(from, to), positions from 0
substring(s, from, to) == SubSeq(s, from + 1, IF to > Len(s) THEN Len(s) ELSE to)

DuplicateMinHalf == 100
DuplicatePrefix == 80
DuplicatePrefix_ga == 150

\* The duplicated-content check: the text is cut to its first half when the
\* second half holds the first characters of the first half.
dropDuplicate(s, prefix) ==
  LET halfLength == Len(s) \div 2
      firstHalf == substring(s, 0, halfLength)
      secondHalf == substring(s, halfLength, Len(s))
  IN IF halfLength > DuplicateMinHalf /\ includes(secondHalf, substring(firstHalf, 0, prefix))
       THEN firstHalf ELSE s

MaxBodyLength == 2000

truncate(s) ==
  IF Len(s) > MaxBodyLength THEN substring(s, 0, MaxBodyLength) \o Chars("...") ELSE s

\* email-processor.js:125: html is the parsed form of the argument, <<>> for
\* the empty string.
enhancedCleanEmailContent(html) ==
  IF html = <<>> THEN <<>>
  ELSE LET document == removeBoilerplate(load(removeScriptAndStyle(html)))
           plain == filterBoilerplateLines(decodeHTMLEntities(convertHTMLToText(document)))
           urls == RemoveMatches(RemoveMatches(RemoveMatches(RemoveMatches(plain,
                     TrackingParamUrl), VeryLongUrl), TrackingPathUrl), HashLinkUrl)
           visible == RemoveChars(RemoveMatches(RemoveMatches(urls,
                        OpeningBrackets), ClosingBrackets), ZeroWidthChars)
           spaced == CollapseBlankLines(RemoveChars(normalizeWhitespace(visible), InvisibleChars))
       IN truncate(dropDuplicate(RemoveMatches(spaced, StreetAddress), DuplicatePrefix))

\* gmail-auth.js:1014: no long-URL pass, no address pass, no truncation.
enhancedCleanEmailContent_ga(html) ==
  IF html = <<>> THEN <<>>
  ELSE LET document == removeBoilerplate(load(removeScriptAndStyle(html)))
           plain == filterBoilerplateLines_ga(decodeHTMLEntities(convertHTMLToText(document)))
           urls == RemoveMatches(RemoveMatches(RemoveMatches(plain,
                     TrackingParamUrl), TrackingPathUrl), HashLinkUrl)
           visible == RemoveChars(RemoveMatches(RemoveMatches(urls,
                        OpeningBrackets), ClosingBrackets), ZeroWidthChars)
           spaced == CollapseBlankLines(RemoveChars(normalizeWhitespace(visible), InvisibleChars))
       IN dropDuplicate(spaced, DuplicatePrefix_ga)
(***************************************************************************)
(* Specification of one enhancedCleanEmailContent call, of either copy.    *)
(***************************************************************************)
Paragraph(chars) == Tag("p", <<TextNode(chars)>>)

Rule == Tag("hr", <<>>)

\* Paragraphs free of boilerplate: no keyword, no contact data, not short.
CleanParagraphs == {Paragraph(Chars("Hello")), Paragraph(Chars("John Doe, Sales"))}

SampleBlocks ==
  CleanParagraphs \cup
  { Rule,
    Paragraph(Chars("Unsubscribe here")),
    TextNode(Chars("Hi")),
    Tag("div", <<Paragraph(Chars("Nested text")), Rule, Paragraph(Chars("Regards"))>>),
    Element("div", {"footer"}, <<>>, <<TextNode(Chars("Acme Inc"))>>),
    Element("div", {"footer"}, <<>>, <<TextNode(Chars("Copyright Acme"))>>),
    Paragraph(Chars("Our  terms")),
    Tag("p", <<Element("a", {}, Chars("http://x.io/privacy"), <<TextNode(Chars("Legal"))>>)>>),
    Tag("script", <<TextNode(Chars("var a"))>>) }

\* <p>Hello</p><hr><p>Unsubscribe here</p>, the example of the specification
RuleExample == <<Paragraph(Chars("Hello")), Rule, Paragraph(Chars("Unsubscribe here"))>>

\* <p>Hello</p><hr><p>John Doe, Sales</p>
RuleExamplePlain == <<Paragraph(Chars("Hello")), Rule, Paragraph(Chars("John Doe, Sales"))>>

HtmlSources ==
  UNION {[1..k -> SampleBlocks] : k \in 0..MaxBlocks} \cup {RuleExample, RuleExamplePlain}

InitHtml ==
  /\ NoExport
  /\ fn \in {"enhancedCleanEmailContent", "enhancedCleanEmailContent_ga"}
  /\ arg \in HtmlSources
  /\ ret = Pending

CallEnhancedCleanEmailContent ==
  /\ fn = "enhancedCleanEmailContent"
  /\ ret = Pending
  /\ ret' = Str(enhancedCleanEmailContent(arg))
  /\ UNCHANGED <<fn, arg, exportVars>>

CallEnhancedCleanEmailContent_ga ==
  /\ fn = "enhancedCleanEmailContent_ga"
  /\ ret = Pending
  /\ ret' = Str(enhancedCleanEmailContent_ga(arg))
  /\ UNCHANGED <<fn, arg, exportVars>>

NextHtml == CallEnhancedCleanEmailContent \/ CallEnhancedCleanEmailContent_ga

SpecHtml == InitHtml /\ [][NextHtml]_vars

\* C7: for an HTML body made of boilerplate-free content, then a horizontal
\* rule, then further content (which may hold boilerplate keywords),
\* enhancedCleanEmailContent returns the text of the content before the rule
\* and nothing of what follows it; <p>Hello</p><hr><p>Unsubscribe here</p>
\* cleans to Hello.
C7_RuleCutsContent ==
  (fn = "enhancedCleanEmailContent" /\ ret.kind = "string") =>
    \A k \in 1..Len(arg) :
      (isRule(arg[k]) /\ \A j \in 1..(k - 1) : arg[j] \in CleanParagraphs)
        => ret.val = join([j \in 1..(k - 1) |-> textOf(arg[j])], <<"\n">>)

\* The part of C7 the code does satisfy: when nothing after the rule holds a
\* boilerplate keyword, the content before the rule is returned.
HtmlRuleWithoutKeyword ==
  (fn = "enhancedCleanEmailContent" /\ ret.kind = "string" /\ arg = RuleExamplePlain)
    => ret.val = Chars("Hello")
(***************************************************************************)
(* decodeEmailBody.  A part has a mimeType ("undefined" when the field is  *)
(* missing), a body that may be missing or hold no data, and a parts list  *)
(* that may be missing.                                                    *)
(***************************************************************************)
NoBody == [defined |-> FALSE, hasData |-> FALSE, data |-> ""]
EmptyBody == [defined |-> TRUE, hasData |-> FALSE, data |-> ""]
BodyOf(data) == [defined |-> TRUE, hasData |-> TRUE, data |-> data]

NoParts == [defined |-> FALSE, list |-> <<>>]
PartsOf(list) == [defined |-> TRUE, list |-> list]

Part(mimeType, body, parts) == [mimeType |-> mimeType, body |-> body, parts |-> parts]

\* The payloads the model draws, base64url as the mail API sends them.
PlainPayload == "SGkgdGVhbQoKQmVzdCByZWdhcmRzLApKb2huCjU1NS0xMjMtNDU2Nw=="
OtherPlainPayload == "UGxhaW4gd29yZHMKaGVyZQ=="
HtmlPayload == "PHA-TWFya3VwIHdvcmRzPC9wPg=="

\* Buffer.from(data, 'base64').toString('utf-8') on these payloads
Base64Decode(data) ==
  CASE data = PlainPayload -> PlainExample
    [] data = OtherPlainPayload -> Chars("Plain words\nhere")
    [] data = HtmlPayload -> Chars("<p>Markup words</p>")
    [] OTHER -> <<>>

\* The nodes the decoded text parses to as HTML.
ParseHtml(source) ==
  IF source = Chars("<p>Markup words</p>") THEN <<Paragraph(Chars("Markup words"))>>
  ELSE IF source = <<>> THEN <<>>
  ELSE <<TextNode(source)>>

\* Mutant: part.body.data is read without the part.body guard, which throws a
\* TypeError on a part without a body.
bodyData_noGuard(part) ==
  IF ~part.body.defined THEN "throw"
  ELSE IF part.body.hasData /\ part.body.data # "" THEN "data" ELSE "none"

\* part.body && part.body.data
bodyData(part) ==
  IF part.body.defined /\ part.body.hasData /\ part.body.data # "" THEN "data" ELSE "none"

\* parts.find(p => p.mimeType === mimeType): the index of the first such part,
\* 0 for undefined
find(parts, mimeType) ==
  IF \E i \in 1..Len(parts) : parts[i].mimeType = mimeType
    THEN CHOOSE i \in 1..Len(parts) :
           parts[i].mimeType = mimeType /\ \A j \in 1..(i - 1) : parts[j].mimeType # mimeType
    ELSE 0

\* Mutant: the HTML part is preferred to the plain-text part.
preferredPart_html(parts) ==
  IF find(parts, "text/html") # 0 THEN find(parts, "text/html")
  ELSE find(parts, "text/plain")

\* The part of a multipart/alternative decodeEmailBody descends into: the
\* plain-text part, else the HTML part, else 0 (none).
preferredPart(parts) ==
  IF find(parts, "text/plain") # 0 THEN find(parts, "text/plain")
  ELSE find(parts, "text/html")

Thrown(results) == \E i \in 1..Len(results) : results[i].kind = "throw"

Values(results) == [i \in 1..Len(results) |-> results[i].val]

\* Mutant: the children's results are joined without the filter.
joinNonEmpty_keepEmpty(texts) == join(texts, <<"\n">>)

\* .filter(text => text && text.trim().length > 0).join('\n')
joinNonEmpty(texts) ==
  LET NotEmpty(t) == t # <<>> /\ Len(trim(t)) > 0
  IN join(SelectSeq(texts, NotEmpty), <<"\n">>)

\* The decoder, copy being "ep" (email-processor.js:239) or "ga"
\* (gmail-auth.js:1116): the two differ by the cleaners they call only.
RECURSIVE decodeBody(_, _)
decodeBody(part, copy) ==
  LET data == bodyData(part) IN
  IF data = "throw" THEN Throw("TypeError")
  ELSE IF part.mimeType = "text/plain" /\ data = "data" THEN
    LET plain == Base64Decode(part.body.data) IN
      Str(IF copy = "ep" THEN cleanPlainText(plain) ELSE cleanPlainText_ga(plain))
  ELSE IF part.mimeType = "text/html" /\ data = "data" THEN
    LET html == ParseHtml(Base64Decode(part.body.data)) IN
      Str(IF copy = "ep" THEN enhancedCleanEmailContent(html)
          ELSE enhancedCleanEmailContent_ga(html))
  ELSE IF part.mimeType = "multipart/alternative" /\ part.parts.defined THEN
    LET parts == part.parts.list
        chosen == preferredPart(parts)
    IN IF chosen # 0 THEN decodeBody(parts[chosen], copy)
       ELSE LET results == [i \in 1..Len(parts) |-> decodeBody(parts[i], copy)] IN
         IF Thrown(results) THEN Throw("TypeError")
         ELSE Str(join(Values(results), <<"\n">>))
  ELSE IF part.parts.defined THEN
    LET parts == part.parts.list
        results == [i \in 1..Len(parts) |-> decodeBody(parts[i], copy)]
    IN IF Thrown(results) THEN Throw("TypeError")
       ELSE Str(joinNonEmpty(Values(results)))
  ELSE Str(<<>>)

decodeEmailBody(part) == decodeBody(part, "ep")

decodeEmailBody_ga(part) == decodeBody(part, "ga")

(***************************************************************************)
(* Specification of one decodeEmailBody call, of either copy, on a part    *)
(* tree: a leaf, or a container of leaves and of nested containers.        *)
(***************************************************************************)
LeafParts ==
  { Part("text/plain", NoBody, NoParts),
    Part("text/plain", EmptyBody, NoParts),
    Part("text/html", NoBody, NoParts),
    Part("undefined", NoBody, NoParts),
    Part("text/plain", BodyOf(PlainPayload), NoParts),
    Part("text/plain", BodyOf(OtherPlainPayload), NoParts),
    Part("text/html", BodyOf(HtmlPayload), NoParts),
    Part("undefined", BodyOf(PlainPayload), NoParts) }

\* The mimeType and body of the containers drawn.
ContainerHeads ==
  { <<"multipart/alternative", EmptyBody>>, <<"multipart/mixed", NoBody>>,
    <<"undefined", NoBody>>, <<"undefined", EmptyBody>> }

PlainLeaf == Part("text/plain", BodyOf(PlainPayload), NoParts)
HtmlLeaf == Part("text/html", BodyOf(HtmlPayload), NoParts)

NestedParts ==
  { Part("multipart/alternative", EmptyBody, PartsOf(<<PlainLeaf, HtmlLeaf>>)),
    Part("multipart/alternative", NoBody, PartsOf(<<HtmlLeaf>>)),
    Part("multipart/mixed", EmptyBody, PartsOf(<<HtmlLeaf, PlainLeaf>>)),
    Part("undefined", NoBody,
         PartsOf(<<Part("multipart/mixed", NoBody, PartsOf(<<PlainLeaf>>))>>)) }

PartTrees ==
  LeafParts \cup
  {Part(h[1], h[2], PartsOf(list)) :
     h \in ContainerHeads,
     list \in UNION {[1..k -> LeafParts \cup NestedParts] : k \in 0..MaxParts}}

InitDecode ==
  /\ NoExport
  /\ fn \in {"decodeEmailBody", "decodeEmailBody_ga"}
  /\ arg \in PartTrees
  /\ ret = Pending

CallDecodeEmailBody ==
  /\ fn = "decodeEmailBody"
  /\ ret = Pending
  /\ ret' = decodeEmailBody(arg)
  /\ UNCHANGED <<fn, arg, exportVars>>

CallDecodeEmailBody_ga ==
  /\ fn = "decodeEmailBody_ga"
  /\ ret = Pending
  /\ ret' = decodeEmailBody_ga(arg)
  /\ UNCHANGED <<fn, arg, exportVars>>

NextDecode == CallDecodeEmailBody \/ CallDecodeEmailBody_ga

SpecDecode == InitDecode /\ [][NextDecode]_vars

\* C1: on every part tree, also one whose nodes lack a mimeType, a body, body
\* data or a parts list, decodeEmailBody terminates and returns a string: the
\* call has a result, it does not throw, and the value is not null or undefined.
C1_DecodeReturnsString ==
  fn \in {"decodeEmailBody", "decodeEmailBody_ga"} =>
    LET result == IF ret # Pending THEN ret
                  ELSE IF fn = "decodeEmailBody" THEN decodeEmailBody(arg)
                  ELSE decodeEmailBody_ga(arg)
    IN result.kind = "string"

\* A container without a mimeType, holding a part without body and a part
\* with a body without data, was decoded to the empty string.
C1_Witness ==
  /\ fn = "decodeEmailBody"
  /\ arg = Part("undefined", NoBody,
                PartsOf(<<Part("text/html", NoBody, NoParts),
                          Part("text/plain", EmptyBody, NoParts)>>))
  /\ ret = Str(<<>>)

PayloadText(part) ==
  IF part.body.defined /\ part.body.hasData THEN Base64Decode(part.body.data) ELSE <<>>

\* C2: a multipart/alternative part with a text/plain child and a text/html
\* child decodes to the cleaned payload of the (first) text/plain child; the
\* HTML child and the other children contribute nothing.
C2_AlternativePrefersPlain ==
  (/\ fn \in {"decodeEmailBody", "decodeEmailBody_ga"}
   /\ ret # Pending
   /\ arg.mimeType = "multipart/alternative"
   /\ arg.parts.defined
   /\ \E i \in 1..Len(arg.parts.list) : arg.parts.list[i].mimeType = "text/plain"
   /\ \E i \in 1..Len(arg.parts.list) : arg.parts.list[i].mimeType = "text/html") =>
    LET parts == arg.parts.list
        IsPlain(p) == p.mimeType = "text/plain"
        plain == Head(SelectSeq(parts, IsPlain))
    IN ret = Str(IF fn = "decodeEmailBody"
                   THEN cleanPlainText(PayloadText(plain))
                   ELSE cleanPlainText_ga(PayloadText(plain)))

\* An alternative whose HTML child comes first and has content was decoded to
\* the text of its plain-text child.
C2_Witness ==
  /\ fn = "decodeEmailBody"
  /\ arg = Part("multipart/alternative", EmptyBody, PartsOf(<<HtmlLeaf, PlainLeaf>>))
  /\ ret = Str(Chars("Hi team"))
(***************************************************************************)
(* The exports: processEmailsToCSV (email-processor.js:296, and its copy   *)
(* gmail-auth.js:1314) and processThreadsToCSV (gmail-auth.js:1196).  A    *)
(* call runs from one await to the next without interruption: the code     *)
(* between two awaits is one action.                                       *)
(***************************************************************************)
Array(list) == [kind |-> "array", val |-> list]
Object(fields) == [kind |-> "object", val |-> fields]

\* The promise of the async function rejects with e.
Rejected(e) == [kind |-> "rejected", val |-> e]

\* catch (error) { return { success: false, error: error.message } }
Failure(message) == Object([success |-> FALSE, error |-> message])

\* msg.payload.headers and its entries; an entry may lack its name.
NoHeaders == [defined |-> FALSE, list |-> <<>>]
HeadersOf(list) == [defined |-> TRUE, list |-> list]
Header(name, value) == [name |-> Str(Chars(name)), value |-> value]
NamelessHeader(value) == [name |-> Undefined, value |-> value]

\* msg.payload: the root part of the message, with its headers.
NoPayload ==
  [defined |-> FALSE, headers |-> NoHeaders, mimeType |-> "undefined",
   body |-> NoBody, parts |-> NoParts]
Payload(headers, part) ==
  [defined |-> TRUE, headers |-> headers, mimeType |-> part.mimeType,
   body |-> part.body, parts |-> part.parts]

\* What res.json() resolves to for one message; an absent id is "".
Message(id, threadId, payload) ==
  [defined |-> TRUE, id |-> id, threadId |-> threadId, payload |-> payload]
NullMessage == [defined |-> FALSE, id |-> "", threadId |-> "", payload |-> NoPayload]

\* What res.json() resolves to for one thread.
NoMessages == [defined |-> FALSE, list |-> <<>>]
MessagesOf(list) == [defined |-> TRUE, list |-> list]
Thread(id, messages) == [defined |-> TRUE, id |-> id, messages |-> messages]

\* headers[header.name.toLowerCase()] = header.value over the list, then
\* headers.<key> || '': the value of the last entry of that name, '' without one.
headerValue(headers, key) ==
  LET hits == {i \in 1..Len(headers) : toLowerCase(headers[i].name.val) = Chars(key)} IN
    IF hits = {} THEN ""
    ELSE headers[CHOOSE i \in hits : \A j \in hits : j <= i].value

\* The body of messages.map(msg => ...) of processEmailsToCSV and of the inner
\* loop of processThreadsToCSV: the record of one message, threadId being
\* what the caller files it under; toLowerCase of an absent name throws.
processMessage(msg, threadId, copy) ==
  LET hasPayload == msg.defined /\ msg.payload.defined
      headers == IF hasPayload /\ msg.payload.headers.defined
                   THEN msg.payload.headers.list ELSE <<>>
  IN IF \E i \in 1..Len(headers) : headers[i].name.kind # "string"
       THEN Throw("TypeError")
     ELSE LET body == IF hasPayload THEN decodeBody(msg.payload, copy) ELSE Str(<<>>) IN
       IF body.kind = "throw" THEN body
       ELSE Object([id |-> IF msg.defined /\ msg.id # "" THEN msg.id ELSE "unknown",
                    threadId |-> threadId,
                    date |-> headerValue(headers, "date"),
                    from |-> headerValue(headers, "from"),
                    to |-> headerValue(headers, "to"),
                    subject |-> headerValue(headers, "subject"),
                    body |-> body.val])

\* msg?.threadId || 'unknown'
messageThreadId(msg) ==
  IF msg.defined /\ msg.threadId # "" THEN msg.threadId ELSE "unknown"

\* for (const thread of completeThreads) { ... }: the records of the messages
\* of every thread that has a messages array, filed under thread.id || 'unknown'.
RECURSIVE processThreads(_, _)
processThreads(completeThreads, copy) ==
  IF completeThreads = <<>> THEN <<>>
  ELSE LET thread == Head(completeThreads)
           threadId == IF thread.id # "" THEN thread.id ELSE "unknown"
           own == IF thread.messages.defined
                    THEN [i \in 1..Len(thread.messages.list) |->
                            processMessage(thread.messages.list[i], threadId, copy)]
                    ELSE <<>>
       IN own \o processThreads(Tail(completeThreads), copy)

\* totalMessageCount
RECURSIVE totalMessageCount(_)
totalMessageCount(completeThreads) ==
  IF completeThreads = <<>> THEN 0
  ELSE (IF Head(completeThreads).messages.defined
          THEN Len(Head(completeThreads).messages.list) ELSE 0)
       + totalMessageCount(Tail(completeThreads))

csvHeader == Chars("Message ID,Thread ID,Date,From,To,Subject,Body\n")
csvHeader_threads ==
  Chars("Thread ID,Thread Position,Message ID,Date,From,To,Subject,Body\n")

Field(s) == Str(Chars(s))

\* The csvRow of processEmailsToCSV
csvRow(email) ==
  join(<<escapeCSVField(Field(email.id)), escapeCSVField(Field(email.threadId)),
         escapeCSVField(Field(email.date)), escapeCSVField(Field(email.from)),
         escapeCSVField(Field(email.to)), escapeCSVField(Field(email.subject)),
         escapeCSVField(Str(email.body))>>, <<",">>) \o <<"\n">>

\* Mutant: the position written is the index of forEach itself, from 0.
csvRow_threads_zeroBased(threadId, index, email) ==
  join(<<escapeCSVField(Field(threadId)), escapeCSVField(Num(index)),
         escapeCSVField(Field(email.id)), escapeCSVField(Field(email.date)),
         escapeCSVField(Field(email.from)), escapeCSVField(Field(email.to)),
         escapeCSVField(Field(email.subject)), escapeCSVField(Str(email.body))>>,
       <<",">>) \o <<"\n">>

\* The csvRow of processThreadsToCSV, index counting from 0
csvRow_threads(threadId, index, email) ==
  join(<<escapeCSVField(Field(threadId)), escapeCSVField(Num(index + 1)),
         escapeCSVField(Field(email.id)), escapeCSVField(Field(email.date)),
         escapeCSVField(Field(email.from)), escapeCSVField(Field(email.to)),
         escapeCSVField(Field(email.subject)), escapeCSVField(Str(email.body))>>,
       <<",">>) \o <<"\n">>

\* The rows of processEmailsToCSV, in loop order
emailRows(emails) == [i \in 1..Len(emails) |-> csvRow(emails[i])]

\* The rows of processThreadsToCSV, in the order of the loop over
\* Object.entries(threadedEmails) and of emails.forEach inside it
threadRows(threadedEmails) ==
  ConcatAll([k \in 1..Len(threadedEmails.keys) |->
               [i \in 1..Len(threadedEmails.vals[k]) |->
                  csvRow_threads(threadedEmails.keys[k], i - 1, threadedEmails.vals[k][i])]])

\* Mutant: csvData is not emptied after a chunk is appended to the file.
RECURSIVE appendRows_noReset(_, _, _, _)
appendRows_noReset(rows, csvData, threshold, chunks) ==
  IF rows = <<>> THEN [csvData |-> csvData, chunks |-> chunks]
  ELSE LET data == csvData \o Head(rows) IN
    IF Len(data) > threshold
      THEN appendRows_noReset(Tail(rows), data, threshold, Append(chunks, data))
      ELSE appendRows_noReset(Tail(rows), data, threshold, chunks)

\* The row loop: csvData += csvRow; if (csvData.length > threshold)
\* { fs.appendFileSync(csvFilePath, csvData); csvData = '' }.  chunks is what
\* was appended so far.
RECURSIVE appendRows(_, _, _, _)
appendRows(rows, csvData, threshold, chunks) ==
  IF rows = <<>> THEN [csvData |-> csvData, chunks |-> chunks]
  ELSE LET data == csvData \o Head(rows) IN
    IF Len(data) > threshold
      THEN appendRows(Tail(rows), <<>>, threshold, Append(chunks, data))
      ELSE appendRows(Tail(rows), data, threshold, chunks)

\* The data of every fs call of one export, in call order: writeFileSync of
\* the header, the appendFileSync of each chunk, and the appendFileSync of the
\* remainder if (csvData.length > 0).
fsCalls(header, rows, threshold) ==
  LET loop == appendRows(rows, <<>>, threshold, <<>>) IN
    <<header>> \o loop.chunks
      \o (IF Len(loop.csvData) > 0 THEN <<loop.csvData>> ELSE <<>>)

(***************************************************************************)
(* Specification of one export call.  The inputs are the labelIds argument *)
(* the caller passes, the replies of the mail API and the fs call that     *)
(* fails, if one does.  The chunk threshold is the constant of the code or *)
(* a small one, a multiple of the header's length, which the rows of the   *)
(* messages drawn here can exceed.                                         *)
(***************************************************************************)
\* processEmailsToCSV_old is the first copy, gmail-auth.js:620, which takes no
\* labelIds; processEmailsToCSV_ga is the copy at gmail-auth.js:1314.
ExportFunctions ==
  {"processEmailsToCSV", "processEmailsToCSV_ga", "processEmailsToCSV_old",
   "processThreadsToCSV"}

FlatExports == {"processEmailsToCSV", "processEmailsToCSV_ga"}

\* The exports that write one row per message, in message order
MessageExports == FlatExports \cup {"processEmailsToCSV_old"}

\* The copy of the cleaners an export decodes with
copyOf(f) == IF f = "processEmailsToCSV" THEN "ep" ELSE "ga"

\* labelIds = ['INBOX'] (email-processor.js), ['SENT'] (gmail-auth.js)
defaultLabelIds(f) ==
  IF f = "processEmailsToCSV" THEN Array(<<"INBOX">>) ELSE Array(<<"SENT">>)

\* The labelIds argument: absent, an array of labels, or the criteria string of
\* the query that /api/extract-emails passes on.
LabelArguments == {Undefined, Array(<<"INBOX">>), Field("client emails")}

ChunkThreshold == 1000000

Thresholds == {k * Len(csvHeader) : k \in 0..MaxChunkScale} \cup {ChunkThreshold}

csvFilePath == "csv/user_at_x.io_2024-01-05T10-00-00-000Z.csv"

SampleMessages ==
  { Message("m1", "t1",
            Payload(HeadersOf(<<Header("Date", "2024-01-02"), Header("From", "a@x.io"),
                                Header("Subject", "Hello, all")>>),
                    Part("text/plain", BodyOf(OtherPlainPayload), NoParts))),
    Message("m2", "7",
            Payload(HeadersOf(<<Header("date", "2024-01-03"), Header("DATE", "2024-01-01"),
                                Header("To", "b@x.io")>>),
                    Part("text/plain", BodyOf(PlainPayload), NoParts))),
    Message("m3", "t1", Payload(NoHeaders, Part("undefined", NoBody, NoParts))),
    Message("m4", "t1", NoPayload),
    Message("m5", "t1",
            Payload(HeadersOf(<<NamelessHeader("x")>>),
                    Part("text/plain", BodyOf(PlainPayload), NoParts))) }

SampleThreads ==
  { Thread("t1", MessagesOf(<<
      Message("m1", "t1",
              Payload(HeadersOf(<<Header("Date", "2024-01-02"), Header("Subject", "Hello, all")>>),
                      Part("text/plain", BodyOf(OtherPlainPayload), NoParts))),
      Message("m3", "t1", Payload(NoHeaders, Part("undefined", NoBody, NoParts)))>>)),
    Thread("7", MessagesOf(<<
      Message("m2", "7",
              Payload(HeadersOf(<<Header("date", "2024-01-01")>>),
                      Part("text/plain", BodyOf(PlainPayload), NoParts)))>>)),
    Thread("t1", MessagesOf(<<
      Message("m5", "t1",
              Payload(HeadersOf(<<NamelessHeader("x")>>),
                      Part("text/plain", BodyOf(PlainPayload), NoParts)))>>)) }

\* The reply to one detail request: the response's ok flag and the value
\* res.json() resolves to, which the code takes without reading the flag.
Reply(ok, body) == [ok |-> ok, body |-> body]

\* The body of a non-success response: an error object, which has neither id
\* nor payload nor messages.
ErrorMessage == Message("", "", NoPayload)
ErrorThread == Thread("", NoMessages)

MessageReplies ==
  {Reply(TRUE, m) : m \in SampleMessages \cup {NullMessage}} \cup {Reply(FALSE, ErrorMessage)}

ThreadReplies ==
  {Reply(TRUE, t) : t \in SampleThreads} \cup {Reply(FALSE, ErrorThread)}

\* The values Promise.all resolves to
Bodies(all) == [i \in 1..Len(all) |-> all[i].body]

InitExport ==
  /\ fn \in ExportFunctions
  /\ arg \in [labelIds : LabelArguments, chunkThreshold : Thresholds]
  /\ fn = "processEmailsToCSV_old" => arg.labelIds = Undefined
  /\ ret = Pending
  /\ pc = "called"
  /\ listResponse = "none"
  /\ listData = Pending
  /\ replies = Pending
  /\ processedEmails = <<>>
  /\ writes = <<>>
  /\ NoConcurrentCalls
  /\ NoRequests

\* processEmailsToCSV up to its first await: the console.log before the try
\* reads labelIds.join, which only an array has, then the list is requested.
CallProcessEmailsToCSV ==
  /\ fn \in FlatExports
  /\ pc = "called"
  /\ LET labelIds == IF arg.labelIds.kind = "undefined"
                       THEN defaultLabelIds(fn) ELSE arg.labelIds
     IN IF labelIds.kind = "array"
          THEN pc' = "awaitList" /\ ret' = ret
          ELSE pc' = "settled" /\ ret' = Rejected("TypeError")
  /\ UNCHANGED <<fn, arg, listResponse, listData, replies, processedEmails, writes, concurrentVars, serverVars>>

\* processThreadsToCSV up to its first await: a labelIds that is not an array
\* is wrapped in one before the console.log reads labelIds.join.
CallProcessThreadsToCSV ==
  /\ fn = "processThreadsToCSV"
  /\ pc = "called"
  /\ LET given == IF arg.labelIds.kind = "undefined"
                    THEN defaultLabelIds(fn) ELSE arg.labelIds
         labelIds == IF given.kind # "array" THEN Array(<<given>>) ELSE given
     IN IF labelIds.kind = "array"
          THEN pc' = "awaitList" /\ ret' = ret
          ELSE pc' = "settled" /\ ret' = Rejected("TypeError")
  /\ UNCHANGED <<fn, arg, listResponse, listData, replies, processedEmails, writes, concurrentVars, serverVars>>

\* processEmailsToCSV of gmail-auth.js:620 up to its first await: it has no
\* labelIds parameter.
CallProcessEmailsToCSV_old ==
  /\ fn = "processEmailsToCSV_old"
  /\ pc = "called"
  /\ pc' = "awaitList"
  /\ UNCHANGED <<fn, arg, ret, listResponse, listData, replies, processedEmails, writes, concurrentVars, serverVars>>

\* await fetch(list): the request fails, or the response is not ok, or it is ok.
ListResponds ==
  /\ pc = "awaitList"
  /\ \E response \in {"rejects", "notOk", "ok"} :
       /\ listResponse' = response
       /\ CASE response = "rejects" ->
                pc' = "settled" /\ ret' = Failure("fetch failed")
            [] response = "notOk" ->
                pc' = "settled" /\ ret' = Failure("Gmail API error: Unauthorized")
            [] response = "ok" ->
                pc' = "awaitJson" /\ ret' = ret
  /\ UNCHANGED <<fn, arg, listData, replies, processedEmails, writes, concurrentVars, serverVars>>

\* What a list response can carry: no JSON, null, an object without the list,
\* one whose list is a string, and one with a list of n entries.
ListBodies ==
  {Throw("SyntaxError"), Null, Undefined, Field("none")}
    \cup {Array([i \in 1..n |-> i]) : n \in 0..MaxMessages}

\* Mutant: whatever is not a list counts as no messages.
hasNoMessages_lenient(messages) ==
  messages.kind # "array" \/ Len(messages.val) = 0

\* !listData.messages || listData.messages.length === 0
hasNoMessages(messages) ==
  \/ messages.kind = "undefined"
  \/ messages.kind = "array" /\ Len(messages.val) = 0

\* What the export returns on the list it got, Pending when it goes on to
\* request the details: the copy at gmail-auth.js:620 first throws unless the
\* list is an array; a list that is not an array has no map method.
listResult(f, messages) ==
  IF f = "processEmailsToCSV_old" /\ messages.kind # "array"
    THEN Failure("Invalid Gmail API response: Missing or malformed \"messages\" field")
  ELSE IF hasNoMessages(messages) THEN Object([success |-> TRUE, count |-> 0])
  ELSE IF messages.kind # "array" THEN Failure("TypeError")
  ELSE Pending

\* await listResponse.json(), the test of the list and the fan-out of the
\* detail requests
ListParsed ==
  /\ pc = "awaitJson"
  /\ \E data \in ListBodies :
       /\ listData' = data
       /\ CASE data.kind = "throw" ->
                pc' = "settled" /\ ret' = Failure(data.val)
            [] data.kind = "null" ->
                pc' = "settled" /\ ret' = Failure("TypeError")
            [] OTHER ->
                /\ ret' = listResult(fn, data)
                /\ pc' = IF listResult(fn, data).kind = "pending"
                           THEN "awaitDetails" ELSE "settled"
  /\ UNCHANGED <<fn, arg, listResponse, replies, processedEmails, writes, concurrentVars, serverVars>>

\* The fs calls made, the one numbered failAt throwing (0: none does), and
\* the result returned.
written(calls, failAt, success) ==
  IF failAt \in 1..Len(calls)
    THEN [writes |-> SubSeq(calls, 1, failAt - 1), ret |-> Failure("EIO")]
    ELSE [writes |-> calls, ret |-> success]

\* await Promise.all(messagePromises), rejected by one failed fetch or one
\* body that is not JSON; else the rest of processEmailsToCSV: the messages
\* are decoded, the file is written and the result returned.
MessagesFetched ==
  /\ fn \in FlatExports
  /\ pc = "awaitDetails"
  /\ pc' = "settled"
  /\ \/ /\ \E error \in {"fetch failed", "SyntaxError"} :
             replies' = Rejected(error) /\ ret' = Failure(error)
        /\ UNCHANGED <<processedEmails, writes>>
     \/ \E all \in [1..Len(listData.val) -> MessageReplies] :
        \E messages \in {Bodies(all)} :
        \E results \in {[i \in 1..Len(messages) |->
                           processMessage(messages[i], messageThreadId(messages[i]),
                                          copyOf(fn))]} :
          IF Thrown(results)
            THEN /\ replies' = Array(all)
                 /\ ret' = Failure("TypeError")
                 /\ UNCHANGED <<processedEmails, writes>>
            ELSE \E emails \in {Values(results)} :
                 \E calls \in {fsCalls(csvHeader, emailRows(emails), arg.chunkThreshold)} :
                 \E failAt \in 0..Len(calls) :
                   LET success == Object([success |-> TRUE, count |-> Len(emails),
                                          filePath |-> csvFilePath,
                                          totalProcessed |-> Len(emails)])
                   IN /\ replies' = Array(all)
                      /\ processedEmails' = emails
                      /\ writes' = written(calls, failAt, success).writes
                      /\ ret' = written(calls, failAt, success).ret
  /\ UNCHANGED <<fn, arg, listResponse, listData, concurrentVars, serverVars>>

\* await Promise.all(threadPromises), rejected by one failed fetch or one body
\* that is not JSON; else the rest of processThreadsToCSV: the messages of
\* the threads are decoded and grouped, the file is written and the result
\* returned.
ThreadsFetched ==
  /\ fn = "processThreadsToCSV"
  /\ pc = "awaitDetails"
  /\ pc' = "settled"
  /\ \/ /\ \E error \in {"fetch failed", "SyntaxError"} :
             replies' = Rejected(error) /\ ret' = Failure(error)
        /\ UNCHANGED <<processedEmails, writes>>
     \/ \E all \in [1..Len(listData.val) -> ThreadReplies] :
        \E completeThreads \in {Bodies(all)} :
        \E results \in {processThreads(completeThreads, copyOf(fn))} :
          IF Thrown(results)
            THEN /\ replies' = Array(all)
                 /\ ret' = Failure("TypeError")
                 /\ UNCHANGED <<processedEmails, writes>>
            ELSE \E emails \in {Values(results)} :
                 \E threadedEmails \in {organizeEmailsByThread(emails)} :
                 \E calls \in {fsCalls(csvHeader_threads, threadRows(threadedEmails),
                                       arg.chunkThreshold)} :
                 \E failAt \in 0..Len(calls) :
                   LET success == Object([success |-> TRUE,
                                          threadCount |-> Len(threadedEmails.keys),
                                          messageCount |-> totalMessageCount(completeThreads),
                                          csvFilePath |-> csvFilePath])
                   IN /\ replies' = Array(all)
                      /\ processedEmails' = emails
                      /\ writes' = written(calls, failAt, success).writes
                      /\ ret' = written(calls, failAt, success).ret
  /\ UNCHANGED <<fn, arg, listResponse, listData, concurrentVars, serverVars>>

\* decodeEmailBody of gmail-auth.js:576: the decoded data of the part, else of
\* its first text/plain child that has data, else of its first text/html
\* child that has data, else of all its children, put end to end; uncleaned.
RECURSIVE decodeEmailBody_old(_)
decodeEmailBody_old(part) ==
  IF bodyData(part) = "data" THEN Base64Decode(part.body.data)
  ELSE IF part.parts.defined THEN
    LET parts == part.parts.list
        plain == find(parts, "text/plain")
        html == find(parts, "text/html")
    IN IF plain # 0 /\ bodyData(parts[plain]) = "data"
         THEN Base64Decode(parts[plain].body.data)
       ELSE IF html # 0 /\ bodyData(parts[html]) = "data"
         THEN Base64Decode(parts[html].body.data)
       ELSE ConcatAll([i \in 1..Len(parts) |-> decodeEmailBody_old(parts[i])])
  ELSE <<>>

\* msg.payload.headers.forEach(header => header.name.toLowerCase()) throws
\* unless the message has a payload with headers that all have a name.
headersThrow_old(msg) ==
  \/ ~msg.defined
  \/ ~msg.payload.defined
  \/ ~msg.payload.headers.defined
  \/ \E i \in 1..Len(msg.payload.headers.list) :
       msg.payload.headers.list[i].name.kind # "string"

\* The fields of the row the loop of gmail-auth.js:665 builds of one message
\* (an absent msg.id or msg.threadId gives an empty field)
email_old(msg) ==
  LET headers == msg.payload.headers.list IN
    [id |-> msg.id, threadId |-> msg.threadId,
     date |-> headerValue(headers, "date"), from |-> headerValue(headers, "from"),
     to |-> headerValue(headers, "to"), subject |-> headerValue(headers, "subject"),
     body |-> decodeEmailBody_old(msg.payload)]

\* for (const msg of messages) of gmail-auth.js:665, run after the header was
\* written: each message is decoded and its row joins csvData, which is
\* appended to the file when it passes the threshold.  The fs call numbered
\* failAt throws; so does a message whose headers cannot be read.
RECURSIVE messageLoop_old(_, _, _, _, _, _)
messageLoop_old(messages, csvData, threshold, written_, emails, failAt) ==
  IF messages = <<>> THEN
    IF Len(csvData) = 0
      THEN [thrown |-> "", writes |-> written_, emails |-> emails]
    ELSE IF Len(written_) + 1 = failAt
      THEN [thrown |-> "EIO", writes |-> written_, emails |-> emails]
    ELSE [thrown |-> "", writes |-> Append(written_, csvData), emails |-> emails]
  ELSE IF headersThrow_old(Head(messages))
    THEN [thrown |-> "TypeError", writes |-> written_, emails |-> emails]
  ELSE LET email == email_old(Head(messages))
           data == csvData \o csvRow(email)
       IN IF Len(data) <= threshold
            THEN messageLoop_old(Tail(messages), data, threshold, written_,
                                 Append(emails, email), failAt)
          ELSE IF Len(written_) + 1 = failAt
            THEN [thrown |-> "EIO", writes |-> written_, emails |-> Append(emails, email)]
          ELSE messageLoop_old(Tail(messages), <<>>, threshold, Append(written_, data),
                               Append(emails, email), failAt)

\* await Promise.all(messagePromises) of gmail-auth.js:652 and the rest of
\* that copy: the header is written first, then the messages are decoded and
\* written one after the other.
MessagesFetched_old ==
  /\ fn = "processEmailsToCSV_old"
  /\ pc = "awaitDetails"
  /\ pc' = "settled"
  /\ \/ /\ \E error \in {"fetch failed", "SyntaxError"} :
             replies' = Rejected(error) /\ ret' = Failure(error)
        /\ UNCHANGED <<processedEmails, writes>>
     \/ \E all \in [1..Len(listData.val) -> MessageReplies] :
        \E messages \in {Bodies(all)} :
        \E failAt \in 0..(Len(messages) + 1) :
          IF failAt = 1
            THEN /\ replies' = Array(all)
                 /\ ret' = Failure("EIO")
                 /\ UNCHANGED <<processedEmails, writes>>
            ELSE \E loop \in {messageLoop_old(messages, <<>>, arg.chunkThreshold,
                                              <<csvHeader>>, <<>>, failAt)} :
                   /\ replies' = Array(all)
                   /\ processedEmails' = loop.emails
                   /\ writes' = loop.writes
                   /\ ret' = IF loop.thrown # "" THEN Failure(loop.thrown)
                             ELSE Object([success |-> TRUE, count |-> Len(messages),
                                          filePath |-> csvFilePath])
  /\ UNCHANGED <<fn, arg, listResponse, listData, concurrentVars, serverVars>>

NextExport ==
  \/ CallProcessEmailsToCSV
  \/ CallProcessEmailsToCSV_old
  \/ CallProcessThreadsToCSV
  \/ ListResponds
  \/ ListParsed
  \/ MessagesFetched
  \/ MessagesFetched_old
  \/ ThreadsFetched

SpecExport == InitExport /\ [][NextExport]_vars

\* The export has returned success after writing a file.
ExportWroteFile ==
  /\ fn \in ExportFunctions
  /\ pc = "settled"
  /\ ret.kind = "object"
  /\ ret.val.success
  /\ writes # <<>>

\* The rows of the decoded records, in the order the export writes them
recordRows ==
  IF fn \in MessageExports THEN emailRows(processedEmails)
  ELSE threadRows(organizeEmailsByThread(processedEmails))

\* C4: for every list of decoded records and every chunk threshold, after a
\* successful export the file holds the header row followed by exactly the
\* rows of the records in record order: the data appended by the chunk
\* flushes and by the final flush, put end to end, is every row once, none
\* duplicated or dropped where a flush falls.
C4_FileHoldsEachRowOnce ==
  ExportWroteFile =>
    /\ writes[1] = (IF fn \in MessageExports THEN csvHeader ELSE csvHeader_threads)
    /\ ConcatAll(Tail(writes)) = ConcatAll(recordRows)
    /\ Len(recordRows) = Len(processedEmails)

\* An export of two records whose first row left the buffer in a chunk flush
\* inside the loop and whose second row was the remainder of the final flush.
C4_Witness ==
  /\ ExportWroteFile
  /\ fn = "processEmailsToCSV"
  /\ Len(processedEmails) = 2
  /\ Len(writes) = 3
  /\ Len(writes[2]) > arg.chunkThreshold
  /\ Len(writes[3]) <= arg.chunkThreshold
  /\ Len(writes[3]) > 0

\* A thread export whose chunk flush inside the loop carried two rows at once.
C4_Witness_threads ==
  /\ ExportWroteFile
  /\ fn = "processThreadsToCSV"
  /\ Len(processedEmails) = 3
  /\ Len(writes) = 3
  /\ arg.chunkThreshold # ChunkThreshold
  /\ Len(writes[3]) <= arg.chunkThreshold

\* C10: every export call, whatever the replies and whatever labelIds value
\* the caller passes, settles with a result object that has a boolean success
\* field; its promise never rejects.
C10_ExportReturnsResult ==
  (fn \in ExportFunctions /\ pc = "settled") =>
    /\ ret.kind = "object"
    /\ ret.val.success \in BOOLEAN

\* The part of C10 the code keeps: a call that got past its first statement
\* settles with a result object, and processThreadsToCSV always gets past it.
ExportPastLogReturnsResult ==
  (fn \in ExportFunctions /\ pc = "settled") =>
    \/ ret.kind = "object" /\ ret.val.success \in BOOLEAN
    \/ fn \in FlatExports /\ arg.labelIds.kind = "string" /\ ret = Rejected("TypeError")

\* The export has settled with a result object.
ExportReturned ==
  /\ fn \in ExportFunctions
  /\ pc = "settled"
  /\ ret.kind = "object"

\* C11: an export that succeeds after writing a file returns success true, the
\* count fields of its mode (count; threadCount and messageCount) and a field
\* named filePath that holds the path of the file written; a failed export
\* returns success false with an error field.
C11_ResultFields ==
  ExportReturned =>
    /\ ExportWroteFile =>
         /\ "filePath" \in DOMAIN ret.val
         /\ ret.val.filePath = csvFilePath
         /\ IF fn \in MessageExports
              THEN "count" \in DOMAIN ret.val
              ELSE {"threadCount", "messageCount"} \subseteq DOMAIN ret.val
    /\ ~ret.val.success => "error" \in DOMAIN ret.val

\* The part of C11 the code keeps: the flat export returns count and filePath,
\* the thread export returns its counts and the path under the name
\* csvFilePath, and a failed export returns an error.
ResultFieldsOfEachMode ==
  ExportReturned =>
    /\ (ExportWroteFile /\ fn \in MessageExports) =>
         /\ {"success", "count", "filePath"} \subseteq DOMAIN ret.val
         /\ ret.val.filePath = csvFilePath
         /\ ret.val.count = Len(processedEmails)
    /\ (ExportWroteFile /\ fn \notin MessageExports) =>
         /\ DOMAIN ret.val = {"success", "threadCount", "messageCount", "csvFilePath"}
         /\ ret.val.csvFilePath = csvFilePath
    /\ ~ret.val.success => DOMAIN ret.val = {"success", "error"}

\* The export has settled with a failure result.
ExportFailed ==
  /\ ExportReturned
  /\ ~ret.val.success
  /\ "error" \in DOMAIN ret.val

\* C12: when the list request gets a non-success response, or a response
\* without a well-formed list (no JSON, no list in it, or a list that is not
\* a list), the export returns a failure result and writes no file.
C12_ListFailureAborts ==
  (/\ fn \in ExportFunctions
   /\ pc = "settled"
   /\ \/ listResponse = "notOk"
      \/ listResponse = "ok" /\ listData.kind \in {"throw", "null", "undefined", "string"})
    => ExportFailed /\ writes = <<>>

\* The part of C12 the code keeps: every such response ends in a failure
\* result without a file, except that the copies other than gmail-auth.js:620
\* take a response without a list for an empty mailbox and report success
\* with count 0 (and write no file either).
ListFailureAbortsUnlessListMissing ==
  (/\ fn \in ExportFunctions
   /\ pc = "settled"
   /\ \/ listResponse = "notOk"
      \/ listResponse = "ok" /\ listData.kind \in {"throw", "null", "undefined", "string"})
    => /\ writes = <<>>
       /\ IF listData.kind = "undefined" /\ fn # "processEmailsToCSV_old"
            THEN ret = Object([success |-> TRUE, count |-> 0])
            ELSE ExportFailed

\* A detail request of the settled export failed: the fetch was rejected, or
\* its response was not a success.
DetailFetchFailed ==
  /\ fn \in ExportFunctions
  /\ pc = "settled"
  /\ \/ replies.kind = "rejected"
     \/ /\ replies.kind = "array"
        /\ \E i \in 1..Len(replies.val) : ~replies.val[i].ok

\* C13: if one fetch of the fan-out fails, by a network error or by a
\* non-success response, the export returns a failure result and has written
\* no record row: nothing follows the header in the file, if there is one.
C13_FetchBarrier ==
  DetailFetchFailed => ExportFailed /\ Len(writes) <= 1

\* The part of C13 the code keeps: a rejected fetch (or a body that is not
\* JSON) fails the export before any file is written.
RejectedFetchFailsExport ==
  (fn \in ExportFunctions /\ pc = "settled" /\ replies.kind = "rejected")
    => ExportFailed /\ writes = <<>>

\* The messages the settled export fetched, in fetch order: the replies of
\* the flat exports, the messages of the threads of the thread export.
RECURSIVE messagesOfThreads(_)
messagesOfThreads(threads) ==
  IF threads = <<>> THEN <<>>
  ELSE (IF Head(threads).messages.defined THEN Head(threads).messages.list ELSE <<>>)
       \o messagesOfThreads(Tail(threads))

fetchedMessages ==
  IF fn = "processThreadsToCSV" THEN messagesOfThreads(Bodies(replies.val))
  ELSE Bodies(replies.val)

\* A message without payload, or whose payload has no headers
lacksHeaders(msg) == msg.defined /\ (~msg.payload.defined \/ ~msg.payload.headers.defined)

\* A message whose headers all have a name
headersReadable(msg) ==
  msg.defined /\
    \A i \in 1..Len(msg.payload.headers.list) :
      msg.payload.headers.list[i].name.kind = "string"

\* Every detail request of the settled export got a success response with a
\* message (or thread) in it, no header of which lacks its name, and one
\* message at least lacks its headers or its payload.
MalformedMessageFetched ==
  /\ fn \in ExportFunctions
  /\ pc = "settled"
  /\ replies.kind = "array"
  /\ \A i \in 1..Len(replies.val) : replies.val[i].ok /\ replies.val[i].body.defined
  /\ \A i \in 1..Len(fetchedMessages) : headersReadable(fetchedMessages[i])
  /\ \E i \in 1..Len(fetchedMessages) : lacksHeaders(fetchedMessages[i])

\* One record per fetched message, those of the messages without headers with
\* empty header fields and that of a message without payload with an empty
\* body, and the file holds the rows of the records.
OneRowPerMessage ==
  /\ Len(processedEmails) = Len(fetchedMessages)
  /\ \A i \in 1..Len(fetchedMessages) :
       lacksHeaders(fetchedMessages[i]) =>
         /\ processedEmails[i].date = ""
         /\ processedEmails[i].from = ""
         /\ processedEmails[i].to = ""
         /\ processedEmails[i].subject = ""
         /\ ~fetchedMessages[i].payload.defined => processedEmails[i].body = <<>>
  /\ ConcatAll(Tail(writes)) = ConcatAll(recordRows)

\* C14: a fetched message that lacks its headers or its payload does not abort
\* the batch: unless a file write fails, the export succeeds and writes one
\* row for every fetched message, the row of the malformed message with empty
\* values for what is absent.
C14_MalformedMessageKept ==
  MalformedMessageFetched =>
    /\ ExportReturned
    /\ ExportFailed => ret.val.error = "EIO"
    /\ ret.val.success => OneRowPerMessage

\* The part of C14 the code keeps: it holds of processEmailsToCSV of
\* email-processor.js, of its copy and of processThreadsToCSV.
MalformedMessageKeptByLaterCopies ==
  (MalformedMessageFetched /\ fn # "processEmailsToCSV_old") =>
    /\ ExportReturned
    /\ ExportFailed => ret.val.error = "EIO"
    /\ ret.val.success => OneRowPerMessage

\* Every detail request of the settled export got a success response with a
\* message (or thread) in it, and the header extraction of one message at
\* least throws: one of its headers has no name.
DecodingThrew ==
  /\ fn \in ExportFunctions
  /\ pc = "settled"
  /\ replies.kind = "array"
  /\ \A i \in 1..Len(replies.val) : replies.val[i].ok /\ replies.val[i].body.defined
  /\ \E i \in 1..Len(fetchedMessages) :
       fetchedMessages[i].defined /\ ~headersReadable(fetchedMessages[i])

\* C15: an exception raised while the headers or the body of one message are
\* decoded does not abort the batch: unless a file write fails, the export
\* succeeds and has one record, and one row, for every fetched message.
C15_DecodeFailureKept ==
  DecodingThrew =>
    /\ ExportReturned
    /\ ExportFailed => ret.val.error = "EIO"
    /\ ret.val.success =>
         /\ Len(processedEmails) = Len(fetchedMessages)
         /\ ConcatAll(Tail(writes)) = ConcatAll(recordRows)

\* What the code does instead: the exception ends the export with a failure
\* result; the later copies have written no file then.
DecodeFailureFailsExport ==
  DecodingThrew =>
    /\ ExportFailed
    /\ fn # "processEmailsToCSV_old" => writes = <<>> /\ ret.val.error = "TypeError"

(***************************************************************************)
(* Two calls of one export in one Node.js process, for the same account    *)
(* and in the same millisecond, so that both build the same csvFilePath.   *)
(* JavaScript runs one call at a time and a call gives up the thread at an *)
(* await only: running is the call that holds the thread.  Every fs call   *)
(* is a step of its own here, so that the order of the fs calls of the two *)
(* exports is decided by where the code awaits and by nothing else.        *)
(***************************************************************************)
CallIds == {1, 2}

ConcurrentFunctions == {"processEmailsToCSV", "processThreadsToCSV"}

\* The replies drawn for the detail requests of the two calls
ParallelMessageReplies ==
  { Reply(TRUE, Message("m1", "t1",
            Payload(HeadersOf(<<Header("Date", "2024-01-02"), Header("Subject", "Hello, all")>>),
                    Part("text/plain", BodyOf(OtherPlainPayload), NoParts)))),
    Reply(TRUE, Message("m4", "t1", NoPayload)),
    Reply(TRUE, Message("m5", "t1",
            Payload(HeadersOf(<<NamelessHeader("x")>>),
                    Part("text/plain", BodyOf(PlainPayload), NoParts)))) }

ParallelThreadReplies ==
  { Reply(TRUE, Thread("t1", MessagesOf(<<
      Message("m1", "t1",
              Payload(HeadersOf(<<Header("Date", "2024-01-02")>>),
                      Part("text/plain", BodyOf(OtherPlainPayload), NoParts))),
      Message("m4", "t1", NoPayload)>>))),
    Reply(TRUE, Thread("7", MessagesOf(<<Message("m4", "7", NoPayload)>>))),
    Reply(FALSE, ErrorThread) }

ParallelListBodies ==
  {Throw("SyntaxError"), Undefined}
    \cup {Array([i \in 1..n |-> i]) : n \in 1..MaxParallelMessages}

\* One call: where it stands, the length of the list it got, the data of the
\* fs calls it is to make once its details arrived, how many it has made,
\* and its result.
Call(position, listed, data, made, result) ==
  [pc |-> position, listed |-> listed, data |-> data, made |-> made, ret |-> result]

\* Mutant: the appends are awaited too (fs.promises.appendFile), so that a
\* call gives up the thread between two of its fs calls.
yields_awaitedAppends(position) ==
  position \in {"awaitList", "awaitJson", "awaitDetails", "writing", "settled"}

\* The positions at which a call gives up the thread: its three awaits and
\* its end.  From the resolution of Promise.all to the return there is no
\* await (email-processor.js:325-381, gmail-auth.js:1235-1299).
yields(position) ==
  position \in {"awaitList", "awaitJson", "awaitDetails", "settled"}

\* The call c may take a step: the thread is free or c holds it.
Runs(c) == running \in {0, c}

\* c moves on to the state next.
Step(c, next) ==
  /\ exports' = [exports EXCEPT ![c] = next]
  /\ running' = IF yields(next.pc) THEN 0 ELSE c

InitConcurrent ==
  /\ fn \in ConcurrentFunctions
  /\ arg \in [labelIds : LabelArguments, chunkThreshold : {0, ChunkThreshold}]
  /\ ret = Pending
  /\ NoSingleCall
  /\ NoRequests
  /\ exports = [c \in CallIds |-> Call("called", 0, <<>>, 0, Pending)]
  /\ running = 0
  /\ fsLog = <<>>

\* The call up to its first await (see CallProcessEmailsToCSV,
\* CallProcessThreadsToCSV)
ConcurrentCall(c) ==
  /\ Runs(c)
  /\ exports[c].pc = "called"
  /\ LET given == IF arg.labelIds.kind = "undefined"
                    THEN defaultLabelIds(fn) ELSE arg.labelIds
         labelIds == IF fn = "processThreadsToCSV" /\ given.kind # "array"
                       THEN Array(<<given>>) ELSE given
     IN IF labelIds.kind = "array"
          THEN Step(c, Call("awaitList", 0, <<>>, 0, Pending))
          ELSE Step(c, Call("settled", 0, <<>>, 0, Rejected("TypeError")))
  /\ UNCHANGED <<fn, arg, ret, callVars, fsLog, serverVars>>

\* await fetch(list) of the call c
ConcurrentListResponds(c) ==
  /\ Runs(c)
  /\ exports[c].pc = "awaitList"
  /\ \E response \in {"rejects", "notOk", "ok"} :
       CASE response = "rejects" ->
              Step(c, Call("settled", 0, <<>>, 0, Failure("fetch failed")))
         [] response = "notOk" ->
              Step(c, Call("settled", 0, <<>>, 0, Failure("Gmail API error: Unauthorized")))
         [] response = "ok" ->
              Step(c, Call("awaitJson", 0, <<>>, 0, Pending))
  /\ UNCHANGED <<fn, arg, ret, callVars, fsLog, serverVars>>

\* await listResponse.json() of the call c and the fan-out
ConcurrentListParsed(c) ==
  /\ Runs(c)
  /\ exports[c].pc = "awaitJson"
  /\ \E data \in ParallelListBodies :
       IF data.kind = "throw"
         THEN Step(c, Call("settled", 0, <<>>, 0, Failure(data.val)))
       ELSE IF listResult(fn, data).kind = "pending"
         THEN Step(c, Call("awaitDetails", Len(data.val), <<>>, 0, Pending))
       ELSE Step(c, Call("settled", 0, <<>>, 0, listResult(fn, data)))
  /\ UNCHANGED <<fn, arg, ret, callVars, fsLog, serverVars>>

\* The data of the fs calls an export makes of the replies all, Throw when
\* the decoding throws
fsCallsOf(f, all, threshold) ==
  LET results == IF f = "processThreadsToCSV"
                   THEN processThreads(Bodies(all), copyOf(f))
                   ELSE [i \in 1..Len(all) |->
                           processMessage(all[i].body, messageThreadId(all[i].body),
                                          copyOf(f))]
  IN IF Thrown(results) THEN Throw("TypeError")
     ELSE IF f = "processThreadsToCSV"
       THEN Array(fsCalls(csvHeader_threads,
                          threadRows(organizeEmailsByThread(Values(results))), threshold))
       ELSE Array(fsCalls(csvHeader, emailRows(Values(results)), threshold))

\* await Promise.all of the call c and the decoding of the replies, up to the
\* first fs call
ConcurrentDetailsArrive(c) ==
  /\ Runs(c)
  /\ exports[c].pc = "awaitDetails"
  /\ \/ \E error \in {"fetch failed", "SyntaxError"} :
          Step(c, Call("settled", exports[c].listed, <<>>, 0, Failure(error)))
     \/ \E all \in [1..exports[c].listed ->
                      IF fn = "processThreadsToCSV"
                        THEN ParallelThreadReplies ELSE ParallelMessageReplies] :
        \E data \in {fsCallsOf(fn, all, arg.chunkThreshold)} :
          IF data.kind = "throw"
            THEN Step(c, Call("settled", exports[c].listed, <<>>, 0, Failure(data.val)))
            ELSE Step(c, Call("writing", exports[c].listed, data.val, 0, Pending))
  /\ UNCHANGED <<fn, arg, ret, callVars, fsLog, serverVars>>

\* The result of a call that made all its fs calls
successOf(f, call) ==
  IF f = "processThreadsToCSV"
    THEN Object([success |-> TRUE, csvFilePath |-> csvFilePath])
    ELSE Object([success |-> TRUE, filePath |-> csvFilePath])

\* The next fs call of the call c: fs.writeFileSync of the header first, then
\* fs.appendFileSync of each chunk; after the last one the call returns.  An
\* fs call that throws ends the call with a failure result.
ConcurrentWrite(c) ==
  /\ Runs(c)
  /\ exports[c].pc = "writing"
  /\ LET call == exports[c]
         made == call.made + 1
     IN \/ /\ fsLog' = Append(fsLog,
                         [call |-> c,
                          op |-> IF made = 1 THEN "writeFileSync" ELSE "appendFileSync",
                          data |-> call.data[made]])
           /\ IF made = Len(call.data)
                THEN Step(c, Call("settled", call.listed, call.data, made, successOf(fn, call)))
                ELSE Step(c, Call("writing", call.listed, call.data, made, Pending))
        \/ /\ fsLog' = fsLog
           /\ Step(c, Call("settled", call.listed, call.data, call.made, Failure("EIO")))
  /\ UNCHANGED <<fn, arg, ret, callVars, serverVars>>

NextConcurrent ==
  \E c \in CallIds :
    \/ ConcurrentCall(c)
    \/ ConcurrentListResponds(c)
    \/ ConcurrentListParsed(c)
    \/ ConcurrentDetailsArrive(c)
    \/ ConcurrentWrite(c)

SpecConcurrent == InitConcurrent /\ [][NextConcurrent]_vars

\* The fs calls the call c made, in the order of the log
loggedBy(c) == SelectSeq(fsLog, LAMBDA entry : entry.call = c)

\* C16: the fs calls of two exports that run at once on one path never
\* interleave: no fs call of one export lies between two fs calls of the
\* other, and each export's fs calls are, in order, its header write and then
\* its chunk appends.
C16_AppendsNeverInterleave ==
  /\ \A i \in 1..Len(fsLog) : \A k \in i..Len(fsLog) :
       fsLog[i].call = fsLog[k].call
         => \A j \in i..k : fsLog[j].call = fsLog[i].call
  /\ \A c \in CallIds :
       /\ Len(loggedBy(c)) = exports[c].made
       /\ \A n \in 1..exports[c].made :
            /\ loggedBy(c)[n].data = exports[c].data[n]
            /\ loggedBy(c)[n].op = IF n = 1 THEN "writeFileSync" ELSE "appendFileSync"

\* Both exports ran at once (each got its list before the other wrote) and
\* each made its header write and at least one append.
C16_Witness ==
  /\ \A c \in CallIds : exports[c].pc = "settled" /\ exports[c].made >= 3
  /\ Len(fsLog) >= 6
  /\ fsLog[1].call = 2

\* The position in the input of the first record of the thread id
firstSeen(emails, id) ==
  CHOOSE i \in 1..Len(emails) :
    /\ emails[i].threadId = id
    /\ \A j \in 1..(i - 1) : emails[j].threadId # id

\* The groups are enumerated in the order in which their threadIds first occur
\* in the input.
firstSeenOrder(emails, threads) ==
  \A g, h \in 1..Len(threads.keys) :
    g < h => firstSeen(emails, threads.keys[g]) < firstSeen(emails, threads.keys[h])

\* C17: the groups organizeEmailsByThread returns are enumerated in the order
\* in which each threadId first occurs in the input, for every threadId,
\* identifiers made only of digits included.
C17_GroupsInFirstSeenOrder ==
  (fn = "organizeEmailsByThread" /\ ret.kind = "object") =>
    firstSeenOrder(arg, ret.val)

\* What the code keeps of C17: first-seen order when no threadId of the input
\* is an array index (a digit-only identifier below 2^32 - 1).
FirstSeenOrderOfStringKeys ==
  (/\ fn = "organizeEmailsByThread"
   /\ ret.kind = "object"
   /\ \A i \in 1..Len(arg) : ~IsArrayIndex(arg[i].threadId)) =>
    firstSeenOrder(arg, ret.val)

(***************************************************************************)
(* organizeEmailsByThread on the records of one long thread: the sort of   *)
(* a group shows its handling of equal and unparsable dates on groups of   *)
(* more records than MaxEmails.                                            *)
(***************************************************************************)
ThreadDateStrings == {"", "2024-01-01", "2024-01-02"}

\* The records of one thread with the dates d, in this order
ThreadOf(d) == [i \in 1..Len(d) |-> [id |-> i, threadId |-> "t1", date |-> d[i]]]

InitOrganizeThread ==
  /\ NoExport
  /\ fn = "organizeEmailsByThread"
  /\ \E n \in 0..MaxThreadLen : \E d \in [1..n -> ThreadDateStrings] :
       arg = ThreadOf(d)
  /\ ret = Pending

SpecOrganizeThread == InitOrganizeThread /\ [][NextOrganize]_vars

\* The position of a record in a group
positionIn(group, email) == CHOOSE i \in 1..Len(group) : group[i] = email

\* The dates of two records are equal as parsed, or both are unparsable.
sameDate(a, b) ==
  LET x == DateValue(a.date) y == DateValue(b.date) IN
    IF x.nan \/ y.nan THEN x.nan /\ y.nan ELSE x.num = y.num

\* C18: two records of one thread whose parsed dates are equal, or whose dates
\* are both unparsable, are in the sorted group in the order of the input.
C18_SortIsStable ==
  (fn = "organizeEmailsByThread" /\ ret.kind = "object") =>
    \A g \in 1..Len(ret.val.vals) :
      LET group == ret.val.vals[g] IN
        \A i, j \in 1..Len(arg) :
          (/\ i < j
           /\ arg[i].threadId = ret.val.keys[g]
           /\ arg[j].threadId = ret.val.keys[g]
           /\ sameDate(arg[i], arg[j]))
            => positionIn(group, arg[i]) < positionIn(group, arg[j])

\* What the code keeps of C18: the records with unparsable dates keep their
\* order among themselves, and a thread all of whose dates are parsable is
\* sorted stably.
StableWithoutMixedDates ==
  (fn = "organizeEmailsByThread" /\ ret.kind = "object") =>
    \A g \in 1..Len(ret.val.vals) :
      LET group == ret.val.vals[g] IN
        \A i, j \in 1..Len(arg) :
          (/\ i < j
           /\ arg[i].threadId = ret.val.keys[g]
           /\ arg[j].threadId = ret.val.keys[g]
           /\ sameDate(arg[i], arg[j])
           /\ \/ DateValue(arg[i].date).nan
              \/ \A k \in 1..Len(group) : ~DateValue(group[k].date).nan)
            => positionIn(group, arg[i]) < positionIn(group, arg[j])

\* The records of the group with unparsable dates are all before or all after
\* the records with parsable dates.
unparsableAtOneEnd(group) ==
  LET unparsable == {i \in 1..Len(group) : DateValue(group[i].date).nan}
      parsable == (1..Len(group)) \ unparsable
  IN \/ \A i \in unparsable : \A j \in parsable : i < j
     \/ \A i \in unparsable : \A j \in parsable : j < i

\* C19: organizeEmailsByThread returns (does not throw) when records have a
\* missing or unparsable date, and in each sorted group the records with
\* unparsable dates sit together at one end, none of them between two records
\* with parsable dates.
C19_InvalidDatesAtOneEnd ==
  (fn = "organizeEmailsByThread" /\ ret.kind # "pending") =>
    /\ ret.kind = "object"
    /\ \A g \in 1..Len(ret.val.vals) : unparsableAtOneEnd(ret.val.vals[g])

\* The record ends of a CSV text: the newlines outside quotes, which are those
\* preceded by an even number of double quotes
RecordEnds(s) ==
  {p \in 1..Len(s) : s[p] = "\n" /\ Cardinality({i \in 1..p : s[i] = "\""}) % 2 = 0}

\* The records of a CSV text that ends with a record end: the text is cut at
\* its record ends and CsvReader reads each piece.
CsvRecords(s) ==
  LET ends == RecordEnds(s)
      end(n) == CHOOSE p \in ends : Cardinality({q \in ends : q < p}) = n - 1
      start(n) == IF n = 1 THEN 1 ELSE end(n - 1) + 1
  IN [n \in 1..Cardinality(ends) |-> CsvReader(SubSeq(s, start(n), end(n)))[1]]

\* The rows of the file a thread export wrote, the header apart, as a CSV
\* reader returns them
fileRows == CsvRecords(ConcatAll(Tail(writes)))

\* C20: in the file of a thread export the rows of one thread are contiguous,
\* one row for each message of the thread, and their Thread Position fields
\* are 1, 2, ..., k in row order, the rows being in the order of the thread's
\* sorted group.
C20_ThreadPositions ==
  (ExportWroteFile /\ fn = "processThreadsToCSV") =>
    LET rows == fileRows
        threads == organizeEmailsByThread(processedEmails)
        rowsOf(id) == {r \in 1..Len(rows) : rows[r][1] = Chars(id)}
    IN /\ Len(rows) = Len(processedEmails)
       /\ \A r \in 1..Len(rows) :
            /\ Len(rows[r]) = 8
            /\ rows[r][2] =
                 JsString(Num(1 + Cardinality({q \in 1..(r - 1) : rows[q][1] = rows[r][1]})))
       /\ \A i \in 1..Len(rows) : \A k \in i..Len(rows) :
            rows[i][1] = rows[k][1] => \A j \in i..k : rows[j][1] = rows[i][1]
       /\ \A g \in 1..Len(threads.keys) :
            LET group == threads.vals[g]
                first == CHOOSE r \in rowsOf(threads.keys[g]) :
                           \A q \in rowsOf(threads.keys[g]) : r <= q
            IN /\ Cardinality(rowsOf(threads.keys[g])) = Len(group)
               /\ \A n \in 1..Len(group) :
                    /\ rows[first + n - 1][2] = JsString(Num(n))
                    /\ rows[first + n - 1][3] = Chars(group[n].id)

\* A thread export wrote the rows of a thread of two messages and of another
\* thread.
C20_Witness ==
  /\ ExportWroteFile
  /\ fn = "processThreadsToCSV"
  /\ Len(processedEmails) = 3
  /\ Len(fileRows) = 3
  /\ \E r \in 1..2 : fileRows[r][1] = fileRows[r + 1][1] /\ fileRows[r + 1][2] = <<"2">>
  /\ \E r \in 1..2 : fileRows[r][1] # fileRows[r + 1][1]

\* The nodes up to the first rule in document order: the rule and every node
\* after it are dropped, at every depth; an element that holds the rule stays
\* with what precedes the rule in it.  found tells whether a rule was met.
RECURSIVE cutAtFirstRule(_)
cutAtFirstRule(nodes) ==
  IF nodes = <<>> THEN [kept |-> <<>>, found |-> FALSE]
  ELSE LET n == Head(nodes) IN
    IF isRule(n) THEN [kept |-> <<>>, found |-> TRUE]
    ELSE LET inner == IF n.type = "text" THEN [kept |-> <<>>, found |-> FALSE]
                      ELSE cutAtFirstRule(n.children)
         IN IF inner.found
              THEN [kept |-> <<[n EXCEPT !.children = inner.kept]>>, found |-> TRUE]
              ELSE LET rest == cutAtFirstRule(Tail(nodes)) IN
                     [kept |-> <<n>> \o rest.kept, found |-> rest.found]

\* The document of a call when the rule pass of removeBoilerplate starts
documentBeforeRulePass(html) ==
  removeFooterLinkParents(removeByKeyword(removeByClass(load(removeScriptAndStyle(html)))))

\* Some rule of the nodes lies inside an element of them.
RECURSIVE hasRule(_)
hasRule(nodes) ==
  \E i \in 1..Len(nodes) :
    isRule(nodes[i]) \/ (nodes[i].type = "tag" /\ hasRule(nodes[i].children))

\* C21: the rule pass of removeBoilerplate drops the first horizontal rule and
\* every node that follows it in document order, at any depth, the nodes that
\* follow the rule's parent container included.
C21_RuleCutsDocumentOrder ==
  (fn \in {"enhancedCleanEmailContent", "enhancedCleanEmailContent_ga"}
     /\ ret.kind = "string" /\ arg # <<>>) =>
    LET document == documentBeforeRulePass(arg) IN
      removeAfterRules(document) = cutAtFirstRule(document).kept

\* What the code keeps of C21: the cut in document order when every rule of
\* the document is a child of the body (its following siblings are all that
\* follows it).
RuleCutsSiblings ==
  (fn \in {"enhancedCleanEmailContent", "enhancedCleanEmailContent_ga"}
     /\ ret.kind = "string" /\ arg # <<>>
     /\ \A i \in 1..Len(arg) : arg[i].type = "tag" => ~hasRule(arg[i].children)) =>
    LET document == documentBeforeRulePass(arg) IN
      removeAfterRules(document) = cutAtFirstRule(document).kept

\* C22: when no line of the input is exactly the `--` delimiter or a closing
\* salutation, cleanPlainText removes no content line: the output is the
\* input's non-blank lines in their order, whitespace-normalized, whatever the
\* lines hold (a line that begins with `--`, an address, a phone number, a URL).
C22_NoDelimiterPassesThrough ==
  (fn \in {"cleanPlainText", "cleanPlainText_ga"} /\ ret.kind = "string") =>
    LET lines == split(arg, "\n") IN
      (\A i \in 1..Len(lines) : ~IsExactSignatureLine(lines[i]))
        => OutLines(ret.val) = NormEach(SelectSeq(lines, NonBlank))

\* What the code keeps of C22: the text passes through when no line begins
\* with `--` or is a closing salutation and, for the copy of
\* email-processor.js, no line holds an address, a phone number or a URL.
PassesThroughWithoutSignatureStart ==
  (fn \in {"cleanPlainText", "cleanPlainText_ga"} /\ ret.kind = "string") =>
    LET lines == split(arg, "\n") IN
      (/\ \A i \in 1..Len(lines) : ~IsPrefixSignatureLine(lines[i])
       /\ fn = "cleanPlainText" => \A i \in 1..Len(lines) : ~HoldsContact(lines[i]))
        => OutLines(ret.val) = NormEach(SelectSeq(lines, NonBlank))

\* The copy of gmail-auth.js keeps the contact lines.
ContactLinesKept_ga ==
  (fn = "cleanPlainText_ga" /\ ret.kind = "string") =>
    LET lines == split(arg, "\n") IN
      (\A i \in 1..Len(lines) : ~IsPrefixSignatureLine(lines[i]))
        => OutLines(ret.val) = NormEach(SelectSeq(lines, NonBlank))

\* The export got every reply and ended with the exception of the decoding of
\* one message.
DecodingFailed ==
  /\ fn \in ExportFunctions
  /\ pc = "settled"
  /\ replies.kind = "array"
  /\ ExportFailed
  /\ ret.val.error = "TypeError"

\* C23: an export decodes every message, then writes the header, then appends
\* the rows in record order, then returns: no file is written before every
\* message of the batch is decoded, so an export that fails in the decoding
\* has made no fs call.
C23_DecodeBeforeWrite ==
  /\ DecodingFailed => writes = <<>>
  /\ ExportWroteFile =>
       /\ writes[1] = (IF fn \in MessageExports THEN csvHeader ELSE csvHeader_threads)
       /\ ConcatAll(Tail(writes)) = ConcatAll(recordRows)

\* What the code keeps of C23: the copies that decode in messages.map (or in
\* the loop over the threads) before the header is written.
DecodeBeforeWriteInLaterCopies ==
  (DecodingFailed /\ fn # "processEmailsToCSV_old") => writes = <<>>

(***************************************************************************)
(* decodeEmailBody on deep trees: a chain of containers, each the only     *)
(* child of the one above, with a text leaf at the bottom.                 *)
(***************************************************************************)
ChainHeads == {"multipart/alternative", "multipart/mixed", "undefined"}

\* The chain of the containers of the mimeTypes heads, outermost first, around
\* the leaf
RECURSIVE Chain(_, _)
Chain(heads, leaf) ==
  IF heads = <<>> THEN leaf
  ELSE Part(Head(heads), NoBody, PartsOf(<<Chain(Tail(heads), leaf)>>))

InitDecodeDeep ==
  /\ NoExport
  /\ fn \in {"decodeEmailBody", "decodeEmailBody_ga"}
  /\ \E n \in 0..MaxDepth : \E heads \in [1..n -> ChainHeads] :
     \E leaf \in {PlainLeaf, HtmlLeaf} : arg = Chain(heads, leaf)
  /\ ret = Pending

SpecDecodeDeep == InitDecodeDeep /\ [][NextDecode]_vars

Max(S) == CHOOSE x \in S : \A y \in S : y <= x

\* The number of levels of the tree the calls of decodeEmailBody reach, the
\* call on the part itself being level 1: a call returns at a text part with
\* data, goes on to the chosen child of a multipart/alternative, and to every
\* child of another part with a parts list.
RECURSIVE levelsVisited(_)
levelsVisited(part) ==
  IF part.mimeType \in {"text/plain", "text/html"} /\ bodyData(part) = "data" THEN 1
  ELSE IF part.parts.defined THEN
    LET parts == part.parts.list
        chosen == IF part.mimeType = "multipart/alternative"
                    THEN preferredPart(parts) ELSE 0
    IN IF chosen # 0 THEN 1 + levelsVisited(parts[chosen])
       ELSE 1 + Max({0} \cup {levelsVisited(parts[i]) : i \in 1..Len(parts)})
  ELSE 1

\* The part at the bottom of a chain
RECURSIVE bottom(_)
bottom(part) ==
  IF part.parts.defined /\ part.parts.list # <<>> THEN bottom(part.parts.list[1]) ELSE part

\* C24: the recursion of decodeEmailBody is bounded by a depth cap: the decoder
\* descends at most a fixed number of levels, here any number up to MaxDepth,
\* and does not visit the parts nested deeper.
C24_DepthCapped ==
  (fn \in {"decodeEmailBody", "decodeEmailBody_ga"} /\ ret # Pending) =>
    levelsVisited(arg) <= MaxDepth

\* What the code does instead: at every depth drawn the decoder reaches the
\* leaf at the bottom of the chain and returns its text.
DecoderReachesEveryDepth ==
  (fn \in {"decodeEmailBody", "decodeEmailBody_ga"} /\ ret # Pending) =>
    /\ ret = decodeBody(bottom(arg), IF fn = "decodeEmailBody" THEN "ep" ELSE "ga")
    /\ ret.val # <<>>

\* The texts that are not empty or blank, in their order, a newline between
\* two of them
RECURSIVE joinedTexts(_)
joinedTexts(texts) ==
  IF texts = <<>> THEN <<>>
  ELSE LET rest == joinedTexts(Tail(texts)) IN
    IF trim(Head(texts)) = <<>> THEN rest
    ELSE IF rest = <<>> THEN Head(texts)
    ELSE Head(texts) \o <<"\n">> \o rest

\* The part is not decoded by its own body: it is no text part with data.
decodedByParts(part) ==
  ~(part.mimeType \in {"text/plain", "text/html"} /\ bodyData(part) = "data")

\* C25: a container that is not multipart/alternative decodes to the results
\* of its children in child order, joined by single newlines, the children
\* whose result is empty or blank skipped, so that no separator leads, trails
\* or is doubled; a part without body data and without children decodes to
\* the empty string.
C25_ContainerJoinsChildren ==
  (fn \in {"decodeEmailBody", "decodeEmailBody_ga"} /\ ret # Pending
     /\ decodedByParts(arg) /\ arg.mimeType # "multipart/alternative") =>
    LET copy == IF fn = "decodeEmailBody" THEN "ep" ELSE "ga"
        parts == IF arg.parts.defined THEN arg.parts.list ELSE <<>>
        results == [i \in 1..Len(parts) |-> decodeBody(parts[i], copy).val]
        out == ret.val
    IN /\ ret.kind = "string"
       /\ out = joinedTexts(results)
       /\ parts = <<>> => out = <<>>
       /\ out # <<>> => out[1] # "\n" /\ out[Len(out)] # "\n"
       /\ \A i \in 1..(Len(out) - 1) : ~(out[i] = "\n" /\ out[i + 1] = "\n")

\* A container of a part without data and a part with text was decoded to
\* the text alone; a container of two parts with text to both, one newline
\* between them.
C25_Witness ==
  /\ fn = "decodeEmailBody"
  /\ ret.kind = "string"
  /\ \/ /\ arg = Part("multipart/mixed", NoBody,
                      PartsOf(<<Part("text/plain", EmptyBody, NoParts), HtmlLeaf>>))
        /\ ret.val = Chars("Markup words")
     \/ /\ arg = Part("multipart/mixed", NoBody, PartsOf(<<HtmlLeaf, PlainLeaf>>))
        /\ ret.val = Chars("Markup words\nHi team")

\* The document the keyword pass works on: script, style and noscript blocks
\* replaced, the source loaded, the elements of boilerplate classes removed.
documentBeforeKeywordPass(html) == removeByClass(load(removeScriptAndStyle(html)))

\* C26 as stated: a keyword anywhere in the text of the HTML document makes
\* the keyword pass remove the root element, and enhancedCleanEmailContent
\* returns the empty string.
C26_KeywordAnywhereEmptiesMessage ==
  (fn \in {"enhancedCleanEmailContent", "enhancedCleanEmailContent_ga"}
     /\ ret.kind = "string" /\ arg # <<>> /\ hasFooterKeyword(load(arg)[1]))
    => /\ removeByKeyword(documentBeforeKeywordPass(arg)) = <<>>
       /\ ret.val = <<>>

\* C26, amended: a keyword in the text the document has when the keyword
\* pass runs, which is without the elements of boilerplate classes the class
\* pass removed before, makes the keyword pass remove every element whose
\* text holds it, the root element included, and enhancedCleanEmailContent
\* returns the empty string for the whole message.
C26_KeywordLeftByClassPassEmptiesMessage ==
  (fn \in {"enhancedCleanEmailContent", "enhancedCleanEmailContent_ga"}
     /\ ret.kind = "string" /\ arg # <<>>
     /\ hasFooterKeyword(documentBeforeKeywordPass(arg)[1]))
    => /\ removeByKeyword(documentBeforeKeywordPass(arg)) = <<>>
       /\ ret.val = <<>>

\* <p>Hello</p><p>Unsubscribe here</p> was cleaned to the empty string.
C26_Witness ==
  /\ fn = "enhancedCleanEmailContent"
  /\ arg = <<Paragraph(Chars("Hello")), Paragraph(Chars("Unsubscribe here"))>>
  /\ hasFooterKeyword(documentBeforeKeywordPass(arg)[1])
  /\ ret = Str(<<>>)

\* The keyword in an element of a boilerplate class goes with that element
\* and the rest of the message stays.
KeywordInFooterClassKeepsMessage ==
  (fn \in {"enhancedCleanEmailContent", "enhancedCleanEmailContent_ga"}
     /\ ret.kind = "string"
     /\ arg = <<Paragraph(Chars("Hello")),
                Element("div", {"footer"}, <<>>, <<TextNode(Chars("Copyright Acme"))>>)>>)
    => ret.val = Chars("Hello")

\* The text filterBoilerplateLines is given in the HTML cleaning path
\* (email-processor.js:135-144)
textBeforeLineFilter(html) ==
  decodeHTMLEntities(convertHTMLToText(removeBoilerplate(load(removeScriptAndStyle(html)))))

\* a is b with some elements left out, the others in their order.
RECURSIVE isSubsequence(_, _)
isSubsequence(a, b) ==
  IF a = <<>> THEN TRUE
  ELSE IF b = <<>> THEN FALSE
  ELSE IF Head(a) = Head(b) THEN isSubsequence(Tail(a), Tail(b))
  ELSE isSubsequence(a, Tail(b))

\* C30: in the HTML cleaning path filterBoilerplateLines drops every line
\* whose trimmed length is under five characters, whatever it holds, and the
\* lines it keeps are the trimmed lines of its input in their original
\* relative order.
C30_ShortLinesDropped ==
  (fn \in {"enhancedCleanEmailContent", "enhancedCleanEmailContent_ga"}
     /\ ret.kind = "string" /\ arg # <<>>) =>
    LET input == textBeforeLineFilter(arg)
        out == IF fn = "enhancedCleanEmailContent" THEN filterBoilerplateLines(input)
               ELSE filterBoilerplateLines_ga(input)
        given == split(input, "\n")
        kept == IF out = <<>> THEN <<>> ELSE split(out, "\n")
    IN /\ \A i \in 1..Len(kept) : Len(trim(kept[i])) >= ShortLine
       /\ \A i \in 1..Len(given) :
            Len(trim(given[i])) < ShortLine
              => \A j \in 1..Len(kept) : kept[j] # trim(given[i])
       /\ isSubsequence(kept, [i \in 1..Len(given) |-> trim(given[i])])

\* Hi<p>Hello</p>: the line Hi reached the filter and the result is Hello.
C30_Witness ==
  /\ fn = "enhancedCleanEmailContent"
  /\ arg = <<TextNode(Chars("Hi")), Paragraph(Chars("Hello"))>>
  /\ \E i \in 1..Len(split(textBeforeLineFilter(arg), "\n")) :
       split(textBeforeLineFilter(arg), "\n")[i] = Chars("Hi")
  /\ ret = Str(Chars("Hello"))

\* Two lines that are kept stay in their order.
KeptLinesInOrder ==
  (fn \in {"enhancedCleanEmailContent", "enhancedCleanEmailContent_ga"}
     /\ ret.kind = "string"
     /\ arg = <<Paragraph(Chars("John Doe, Sales")), Paragraph(Chars("Hello"))>>)
    => ret.val = Chars("John Doe, Sales\nHello")

\* The content of the file at csvFilePath after the fs calls of the log:
\* fs.writeFileSync replaces the content, fs.appendFileSync adds to it.
RECURSIVE fileAfter(_)
fileAfter(log) ==
  IF log = <<>> THEN <<>>
  ELSE LET last == log[Len(log)] IN
    IF last.op = "writeFileSync" THEN last.data
    ELSE fileAfter(SubSeq(log, 1, Len(log) - 1)) \o last.data

\* The call c returned a success result with a file path.
returnedFile(c) ==
  /\ exports[c].pc = "settled"
  /\ exports[c].ret.kind = "object"
  /\ exports[c].ret.val.success
  /\ exports[c].data # <<>>

\* C27: whenever an export has returned success with a file path, the file
\* at that path holds exactly the header and the rows of that export, also
\* when another export of the same account runs concurrently and builds the
\* same path.
C27_FileHoldsOwnExport ==
  \A c \in CallIds :
    returnedFile(c) => fileAfter(fsLog) = ConcatAll(exports[c].data)

\* At the step an export returns, the file holds its header and its rows.
FileHoldsOwnExportAtReturn ==
  [][\A c \in CallIds :
       (~returnedFile(c) /\ returnedFile(c)')
         => fileAfter(fsLog') = ConcatAll(exports'[c].data)]_vars

\* The file holds the header and the rows of the export that wrote last.
FileHoldsLastExport ==
  \A c \in CallIds :
    (returnedFile(c) /\ fsLog[Len(fsLog)].call = c)
      => fileAfter(fsLog) = ConcatAll(exports[c].data)

(***************************************************************************)
(* The batch extraction of GET /api/extract-emails (gmail-auth.js:713).    *)
(* The handler lists the token files, replies, and leaves the loop over    *)
(* the files to a timer callback; two requests leave two callbacks in one  *)
(* process.  A callback gives up the thread at its awaits only: thread is  *)
(* the run that holds it, 0 when the event loop is idle.                   *)
(***************************************************************************)
RunIds == {1, 2}

\* The token files of DATA_DIR, in the order fs.readdirSync returns them
TokenFileNames == <<"a@x.io.json", "b@x.io.json", "c@x.io.json", "d@x.io.json">>

\* fs.readdirSync(DATA_DIR).filter(file => file.endsWith('.json')): file
\* names of one directory, each once; the directory holds up to MaxUsers of
\* them.
Listings == {SubSeq(TokenFileNames, 1, n) : n \in 0..MaxUsers}

\* What the callback finds in a token file: nothing it can read and parse,
\* a token that has not expired, an expired token with a refresh token, an
\* expired token without one.
TokenStates == {"unreadable", "valid", "expired", "expiredNoRefresh"}

\* One run of the callback: the files it was given, the index of the file
\* the loop is at, where it stands, what it did so far (file and event), and
\* the files whose export was started and has not settled.
Run(files, at, position, log, inFlight) ==
  [files |-> files, at |-> at, pc |-> position, log |-> log, inFlight |-> inFlight]

Did(file, event) == [file |-> file, event |-> event]

\* Mutant: the export is started and not awaited.
exportAwaited_detached(file) == FALSE

\* const result = await emailProcessor.processEmailsToCSV(...)
\* (gmail-auth.js:775): the loop waits for the export it started.
exportAwaited(file) == TRUE

\* The run holds the thread while it is in the loop.
holdsThread(position) == position = "loop"

BatchStep(r, next) ==
  batch' = [runs |-> [batch.runs EXCEPT ![r] = next],
            thread |-> IF holdsThread(next.pc) THEN r ELSE 0]

InitBatch ==
  /\ fn = "extractEmails"
  /\ arg = <<>>
  /\ ret = Pending
  /\ NoSingleCall
  /\ NoConcurrentCalls
  /\ session = <<>>
  /\ \E files \in Listings :
       batch = [runs |-> [r \in RunIds |->
                            Run(files, 1, IF files = <<>> THEN "none" ELSE "timer", <<>>, {})],
                thread |-> 0]

\* The callback of setTimeout(async () => {...}, 100) is called
\* (gmail-auth.js:746).
TimerFires(r) ==
  /\ batch.thread = 0
  /\ batch.runs[r].pc = "timer"
  /\ BatchStep(r, [batch.runs[r] EXCEPT !.pc = "loop"])
  /\ UNCHANGED <<fn, arg, ret, callVars, concurrentVars, session>>

\* The run after it started the export for the file the loop is at
\* (gmail-auth.js:773-784)
exportStarted(run, log) ==
  LET file == run.files[run.at] IN
    IF exportAwaited(file)
      THEN Run(run.files, run.at, "awaitExport", Append(log, Did(file, "export")),
               run.inFlight \cup {file})
      ELSE Run(run.files, run.at + 1, "loop", Append(log, Did(file, "export")),
               run.inFlight \cup {file})

\* One turn of for (const file of tokenFiles), up to its first await or to
\* its end (gmail-auth.js:749-771): the token file is read and parsed; an
\* exception goes to the catch of the turn, an expired token with a refresh
\* token is refreshed, any other token is used for the export.
NextUser(r) ==
  /\ batch.thread = r
  /\ batch.runs[r].pc = "loop"
  /\ LET run == batch.runs[r] IN
       IF run.at > Len(run.files)
         THEN BatchStep(r, [run EXCEPT !.pc = "finished"])
         ELSE \E token \in TokenStates :
                LET file == run.files[run.at]
                    log == Append(run.log, Did(file, "attempt"))
                IN CASE token = "unreadable" ->
                          BatchStep(r, Run(run.files, run.at + 1, "loop",
                                           Append(log, Did(file, "userError")), run.inFlight))
                     [] token = "expired" ->
                          BatchStep(r, Run(run.files, run.at, "awaitRefresh",
                                           Append(log, Did(file, "refresh")), run.inFlight))
                     [] OTHER -> BatchStep(r, exportStarted(run, log))
  /\ UNCHANGED <<fn, arg, ret, callVars, concurrentVars, session>>

\* await getNewAccessTokenUsingRefreshToken(...) settles (gmail-auth.js:761-769):
\* with a token, which is written to the token file, or with a rejection; the
\* rejection and a failed write go to the catch, which continues the loop.
RefreshSettles(r) ==
  /\ batch.thread = 0
  /\ batch.runs[r].pc = "awaitRefresh"
  /\ LET run == batch.runs[r]
         file == run.files[run.at]
     IN \E outcome \in {"token", "rejects", "writeFails"} :
          IF outcome = "token"
            THEN BatchStep(r, exportStarted(run, run.log))
            ELSE BatchStep(r, Run(run.files, run.at + 1, "loop",
                                  Append(run.log, Did(file, "refreshError")), run.inFlight))
  /\ UNCHANGED <<fn, arg, ret, callVars, concurrentVars, session>>

\* The export of a file settles: with a result, success or failure, or with a
\* rejection, which the catch of gmail-auth.js:782 takes.  The loop that
\* awaits this export goes on to the next file.
ExportSettles(r) ==
  /\ batch.thread = 0
  /\ LET run == batch.runs[r] IN
       \E file \in run.inFlight : \E event \in {"completed", "processError"} :
         LET log == Append(run.log, Did(file, event))
             awaited == run.pc = "awaitExport" /\ run.files[run.at] = file
         IN BatchStep(r, Run(run.files,
                             IF awaited THEN run.at + 1 ELSE run.at,
                             IF awaited THEN "loop" ELSE run.pc,
                             log, run.inFlight \ {file}))
  /\ UNCHANGED <<fn, arg, ret, callVars, concurrentVars, session>>

NextBatch ==
  \E r \in RunIds :
    \/ TimerFires(r)
    \/ NextUser(r)
    \/ RefreshSettles(r)
    \/ ExportSettles(r)

SpecBatch == InitBatch /\ [][NextBatch]_vars

\* The files of the events of a log, in the order of the log
filesOf(log, event) ==
  LET picked == SelectSeq(log, LAMBDA did : did.event = event)
  IN [i \in 1..Len(picked) |-> picked[i].file]

\* C28: a run of the batch extraction attempts every listed token file
\* exactly once, in listing order, with at most one export in flight at any
\* time; an error for one user (unreadable token file, failed refresh, failed
\* export) does not keep the run from the users after it, and no export is
\* started for a user whose token refresh failed.
C28_BatchAttemptsEveryUser ==
  (fn = "extractEmails") =>
    \A r \in RunIds :
      LET run == batch.runs[r]
          attempted == filesOf(run.log, "attempt")
          Failed(did) == did.event \in {"userError", "refreshError", "processError"}
      IN /\ Len(attempted) <= Len(run.files)
         /\ attempted = SubSeq(run.files, 1, Len(attempted))
         /\ run.pc = "finished" => attempted = run.files
         /\ Cardinality(run.inFlight) <= 1
         /\ \A i \in 1..Len(run.log) :
              Failed(run.log[i]) =>
                \/ run.pc # "finished"
                \/ \A k \in 1..Len(run.files) :
                     \E j \in 1..Len(run.log) : run.log[j] = Did(run.files[k], "attempt")
         /\ \A i, j \in 1..Len(run.log) :
              ~(/\ run.log[i].event = "refreshError"
                /\ run.log[j].event = "export"
                /\ run.log[i].file = run.log[j].file)

\* A run finished: the refresh failed for its first user, whose export was
\* not started, and the export of its second user was started and settled.
C28_Witness ==
  /\ fn = "extractEmails"
  /\ batch.runs[1].pc = "finished"
  /\ batch.runs[1].files = <<"a@x.io.json", "b@x.io.json">>
  /\ batch.runs[1].log =
       <<Did("a@x.io.json", "attempt"), Did("a@x.io.json", "refresh"),
         Did("a@x.io.json", "refreshError"),
         Did("b@x.io.json", "attempt"), Did("b@x.io.json", "export"),
         Did("b@x.io.json", "completed")>>

\* The bound of one export in flight is that of one run: the runs of two
\* requests each have their own.
OneExportInProcess ==
  (fn = "extractEmails") =>
    Cardinality({r \in RunIds : batch.runs[r].inFlight # {}}) <= 1

\* With promises that settle, every run comes to its end.
SpecBatchFair == SpecBatch /\ WF_vars(NextBatch)

BatchRunsFinish ==
  (fn = "extractEmails") ~> (\A r \in RunIds : batch.runs[r].pc \in {"finished", "none"})

(***************************************************************************)
(* The state parameter of the OAuth flow (gmail-auth.js:57-77).  A session *)
(* is the object @fastify/session keeps for one browser; /login/google     *)
(* calls generateStateFunction, /oauth2/callback calls checkStateFunction. *)
(***************************************************************************)
SessionIds == {1, 2}

\* Values of require('crypto').randomBytes(16).toString('hex')
StateValues == {Str(Chars("1f")), Str(Chars("a0"))}

\* Values of request.query.state: a state, the empty string, or none
QueryValues == StateValues \cup {Str(<<>>), Undefined}

\* A session: its oauthState field, the states generateStateFunction produced
\* in it, in order, and the last callback the browser sent, with the state
\* produced last before it.
Session(oauthState, generated, checked) ==
  [oauthState |-> oauthState, generated |-> generated, checked |-> checked]

NewSession == Session(Undefined, <<>>, <<>>)

Accepted == [kind |-> "accepted", val |-> <<>>]

\* The state generateStateFunction produced last in a session
lastGenerated(generated) ==
  IF generated = <<>> THEN Undefined ELSE generated[Len(generated)]

\* !value
not(value) == value.kind = "undefined" \/ (value.kind = "string" /\ value.val = <<>>)

\* Mutant: the check compares the two states and does not ask for a saved one.
checkStateFunction_compareOnly(state, savedState) ==
  IF state # savedState THEN Throw("Invalid state parameter") ELSE Accepted

\* checkStateFunction (gmail-auth.js:63-76), by what it hands to callback
checkStateFunction(state, savedState) ==
  IF not(savedState) \/ state # savedState
    THEN Throw("Invalid state parameter")
    ELSE Accepted

InitState ==
  /\ fn = "checkStateFunction"
  /\ arg = <<>>
  /\ ret = Pending
  /\ NoSingleCall
  /\ NoConcurrentCalls
  /\ batch = <<>>
  /\ session = [s \in SessionIds |-> NewSession]

\* GET /login/google in the session s: generateStateFunction
\* (gmail-auth.js:57-62)
GenerateState(s) ==
  /\ Len(session[s].generated) < MaxLogins
  /\ \E state \in StateValues :
       session' = [session EXCEPT ![s] =
                     Session(state, Append(session[s].generated, state), session[s].checked)]
  /\ UNCHANGED <<fn, arg, ret, callVars, concurrentVars, batch>>

\* GET /oauth2/callback?state=... in the session s
CheckState(s) ==
  /\ \E state \in QueryValues :
       session' = [session EXCEPT ![s].checked =
                     <<[state |-> state,
                        latest |-> lastGenerated(session[s].generated),
                        outcome |-> checkStateFunction(state, session[s].oauthState)]>>]
  /\ UNCHANGED <<fn, arg, ret, callVars, concurrentVars, batch>>

\* The session cookie expires (maxAge, gmail-auth.js:36): the next request of
\* the browser opens a new session.
SessionExpires(s) ==
  /\ session[s].generated # <<>>
  /\ session' = [session EXCEPT ![s] = Session(Undefined, <<>>, session[s].checked)]
  /\ UNCHANGED <<fn, arg, ret, callVars, concurrentVars, batch>>

NextState ==
  \E s \in SessionIds : GenerateState(s) \/ CheckState(s) \/ SessionExpires(s)

SpecState == InitState /\ [][NextState]_vars

\* C29: the state check accepts a callback only if the session holds a saved
\* state and the state parameter of the request equals it, the saved state
\* being the one generateStateFunction produced last in that session; in a
\* session in which no login was started every callback is rejected with
\* 'Invalid state parameter'.
C29_StateCheck ==
  (fn = "checkStateFunction") =>
    \A s \in SessionIds :
      /\ session[s].oauthState = lastGenerated(session[s].generated)
      /\ \A i \in 1..Len(session[s].checked) :
           LET check == session[s].checked[i] IN
             /\ check.outcome = Accepted =>
                  /\ check.latest # Undefined
                  /\ check.state = check.latest
             /\ check.latest = Undefined => check.outcome = Throw("Invalid state parameter")
             /\ check.outcome # Accepted => check.outcome = Throw("Invalid state parameter")

\* Two logins were started in a session and the callback that carried the
\* state of the second was accepted; in the other session, without a login,
\* a callback that carried the same state was rejected.
C29_Witness ==
  /\ fn = "checkStateFunction"
  /\ session[1].generated = <<Str(Chars("1f")), Str(Chars("a0"))>>
  /\ session[1].checked = <<[state |-> Str(Chars("a0")), latest |-> Str(Chars("a0")),
                             outcome |-> Accepted]>>
  /\ session[2].generated = <<>>
  /\ session[2].checked = <<[state |-> Str(Chars("a0")), latest |-> Undefined,
                             outcome |-> Throw("Invalid state parameter")]>>

\* A state other than the one produced last, that of an earlier login
\* included, is rejected, and the state produced last is accepted.
OnlyLatestStateAccepted ==
  (fn = "checkStateFunction") =>
    \A s \in SessionIds : \A i \in 1..Len(session[s].checked) :
      LET check == session[s].checked[i] IN
        check.latest # Undefined => (check.outcome = Accepted <=> check.state = check.latest)

====
